---- MODULE Spec2Model ----
(***************************************************************************)
(* State-machine model of resource_linode.go: the reference catalog        *)
(* lookups, the image resolver, the job waiter, and the create and update  *)
(* handlers of the linode resource, together with the remote control plane *)
(* they talk to.                                                           *)
(*                                                                         *)
(* Strings the code inspects character by character (kernel labels, image  *)
(* names) are sequences of one-character strings.  Strings the code only   *)
(* compares for equality are TLA+ strings.                                 *)
(***************************************************************************)
EXTENDS Integers, Sequences, FiniteSets, TLC

VARIABLES
    pc,      \* position of the handler or function that is running
    d,       \* schema.ResourceData: id, prior state, desired state, partial keys
    remote,  \* state of the remote control plane
    calls,   \* remote API calls issued so far, in order
    result,  \* what the handler returned
    loc,     \* locals of the running handler or function
    cache,   \* kernelList, regionList, sizeList
    w,       \* locals of the job waiter
    clock    \* wall clock, in seconds

vars == <<pc, d, remote, calls, result, loc, cache, w, clock>>

----------------------------------------------------------------------------
(* Bounds of the model *)

MaxCatalog == 2

MaxJobs == 2

MaxCallSecs == 1

MaxWaitMinutes == 1

MaxDisks == 2

MaxConfigs == 2

(* handler runs served by one process in the lookup specification *)
MaxRuns == 2

(* storage of an instance, in units of 256 MB *)
MaxStorageUnits == 80

(* handler runs in flight at once *)
MaxConcurrent == 2

----------------------------------------------------------------------------
(* Strings *)

HasPrefix(s, prefix) ==
    /\ Len(prefix) <= Len(s)
    /\ SubSeq(s, 1, Len(prefix)) = prefix

Latest == <<"L","a","t","e","s","t">>

Whitespace == {" ", "\t"}

Digit == <<"0","1","2","3","4","5","6","7","8","9">>

RECURSIVE Itoa(_)
Itoa(n) ==
    IF n < 0 THEN <<"-">> \o Itoa(-n)
    ELSE IF n < 10 THEN <<Digit[n + 1]>>
    ELSE Itoa(n \div 10) \o <<Digit[(n % 10) + 1]>>

(* regexp \s*\(.*\)\s*, ReplaceAllString(s, ""), on a string without a line
   break: the leftmost match starts at the blanks before the first "(" that
   has a ")" to its right, the greedy .* runs to the last ")" of the string,
   and the blanks that follow are taken too.  Nothing after it can match. *)
latestKernelStrip(s) ==
    LET open  == {i \in 1..Len(s) : s[i] = "("}
        close == {i \in 1..Len(s) : s[i] = ")"}
        Min(S) == CHOOSE x \in S : \A y \in S : x <= y
        Max(S) == CHOOSE x \in S : \A y \in S : x >= y
    IN  IF open = {} \/ close = {} \/ Max(close) < Min(open)
        THEN s
        ELSE LET o == Min(open)
                 c == Max(close)
                 lead  == {i \in 1..o : \A j \in i..(o - 1) : s[j] \in Whitespace}
                 trail == {i \in c..Len(s) : \A j \in (c + 1)..i : s[j] \in Whitespace}
             IN  SubSeq(s, 1, Min(lead) - 1) \o SubSeq(s, Max(trail) + 1, Len(s))

(* "for i := range list { if match { return ... } }": index of the first
   matching entry, 0 when the loop falls through *)
FirstMatch(list, match(_)) ==
    LET I == {i \in 1..Len(list) : match(list[i])}
    IN  IF I = {} THEN 0 ELSE CHOOSE i \in I : \A j \in I : i <= j

----------------------------------------------------------------------------
(* Reference catalog: the lookups over a fetched list *)

NilList == [nil |-> TRUE, v |-> <<>>]

Loaded(list) == [nil |-> FALSE, v |-> list]

getKernelName(k, kernelId) ==
    LET i == FirstMatch(k, LAMBDA e : e.KernelId = kernelId)
    IN  IF i = 0 THEN [val |-> <<>>, err |-> "notfound"]
        ELSE IF HasPrefix(k[i].Label, Latest)
             THEN [val |-> latestKernelStrip(k[i].Label), err |-> "nil"]
             ELSE [val |-> k[i].Label, err |-> "nil"]

getKernelID_exactOnly(k, kernelName) ==
    LET i == FirstMatch(k, LAMBDA e : e.Label = kernelName)
    IN  IF i = 0 THEN [val |-> -1, err |-> "notfound"]
        ELSE [val |-> k[i].KernelId, err |-> "nil"]

getKernelID(k, kernelName) ==
    LET i == FirstMatch(k, LAMBDA e :
                 IF HasPrefix(kernelName, Latest)
                 THEN HasPrefix(e.Label, kernelName)
                 ELSE e.Label = kernelName)
    IN  IF i = 0 THEN [val |-> -1, err |-> "notfound"]
        ELSE [val |-> k[i].KernelId, err |-> "nil"]

getRegionName(r, regionId) ==
    LET i == FirstMatch(r, LAMBDA e : e.DataCenterId = regionId)
    IN  IF i = 0 THEN [val |-> "", err |-> "notfound"]
        ELSE [val |-> r[i].Location, err |-> "nil"]

getRegionID(r, regionName) ==
    LET i == FirstMatch(r, LAMBDA e : e.Location = regionName)
    IN  IF i = 0 THEN [val |-> -1, err |-> "notfound"]
        ELSE [val |-> r[i].DataCenterId, err |-> "nil"]

getSizeId(s, size) ==
    LET i == FirstMatch(s, LAMBDA e : e.RAM = size)
    IN  IF i = 0 THEN [val |-> -1, err |-> "notfound"]
        ELSE [val |-> s[i].PlanId, err |-> "nil"]

getSize(s, sizeId) ==
    LET i == FirstMatch(s, LAMBDA e : e.PlanId = sizeId)
    IN  IF i = 0 THEN [val |-> -1, err |-> "notfound"]
        ELSE [val |-> s[i].RAM, err |-> "nil"]

getPlanDiskSize(s, planID) ==
    LET i == FirstMatch(s, LAMBDA e : e.PlanId = planID)
    IN  IF i = 0 THEN [val |-> -1, err |-> "notfound"]
        ELSE [val |-> s[i].Disk * 1024, err |-> "nil"]

----------------------------------------------------------------------------
(* Image resolution *)

PREBUILT == 0

CUSTOM_IMAGE == 1

NoImage(e) == [imageType |-> -1, imageId |-> -1, err |-> e]

findImage_customFirst(distResp, custResp, imageName) ==
    LET prebuilt == distResp.list
        customImages == custResp.list
        i == FirstMatch(prebuilt, LAMBDA e : e.Label = imageName)
        j == FirstMatch(customImages, LAMBDA e :
                 e.Label = imageName \/ Itoa(e.ImageId) = imageName)
    IN  IF ~custResp.ok
        THEN [res |-> NoImage("remote"), calls |-> <<"Image.List">>]
        ELSE IF j # 0
        THEN [res |-> [imageType |-> CUSTOM_IMAGE, imageId |-> customImages[j].ImageId,
                       err |-> "nil"],
              calls |-> <<"Image.List">>]
        ELSE IF ~distResp.ok
        THEN [res |-> NoImage("remote"), calls |-> <<"Image.List", "Avail.Distributions">>]
        ELSE IF i # 0
        THEN [res |-> [imageType |-> PREBUILT, imageId |-> prebuilt[i].DistributionId,
                       err |-> "nil"],
              calls |-> <<"Image.List", "Avail.Distributions">>]
        ELSE [res |-> NoImage("notfound"), calls |-> <<"Image.List", "Avail.Distributions">>]

(* distResp and custResp are what Avail.Distributions and Image.List answer
   when called: [ok, list].  The result carries the calls that were made. *)
findImage(distResp, custResp, imageName) ==
    LET prebuilt == distResp.list
        customImages == custResp.list
        i == FirstMatch(prebuilt, LAMBDA e : e.Label = imageName)
        j == FirstMatch(customImages, LAMBDA e :
                 e.Label = imageName \/ Itoa(e.ImageId) = imageName)
    IN  IF ~distResp.ok
        THEN [res |-> NoImage("remote"), calls |-> <<"Avail.Distributions">>]
        ELSE IF i # 0
        THEN [res |-> [imageType |-> PREBUILT, imageId |-> prebuilt[i].DistributionId,
                       err |-> "nil"],
              calls |-> <<"Avail.Distributions">>]
        ELSE IF ~custResp.ok
        THEN [res |-> NoImage("remote"), calls |-> <<"Avail.Distributions", "Image.List">>]
        ELSE IF j # 0
        THEN [res |-> [imageType |-> CUSTOM_IMAGE, imageId |-> customImages[j].ImageId,
                       err |-> "nil"],
              calls |-> <<"Avail.Distributions", "Image.List">>]
        ELSE [res |-> NoImage("notfound"), calls |-> <<"Avail.Distributions", "Image.List">>]

----------------------------------------------------------------------------
(* Catalog contents and requests the lookups are exercised on *)

K_Latest4x == <<"L","a","t","e","s","t"," ","4",".","x"," ","(","4",".","1","9",".","8","6",")">>

K_Latest4xrc == <<"L","a","t","e","s","t"," ","4",".","x","-","r","c"," ","(","5",".","0",")">>

K_Latest64 == <<"L","a","t","e","s","t"," ","6","4"," ","b","i","t"," ","(","4",".","1","8",".","1","6",")">>

K_41986 == <<"4",".","1","9",".","8","6">>

K_Grub == <<"G","R","U","B"," ","(","L","e","g","a","c","y",")">>

N_Latest4x == <<"L","a","t","e","s","t"," ","4",".","x">>

N_Latest4xrc == <<"L","a","t","e","s","t"," ","4",".","x","-","r","c">>

N_Latest64 == <<"L","a","t","e","s","t"," ","6","4"," ","b","i","t">>

N_419 == <<"4",".","1","9">>

KernelLabels == {K_Latest4x, K_Latest4xrc, K_Latest64, K_41986, K_Grub}

KernelNames == KernelLabels \cup {Latest, N_Latest4x, N_Latest4xrc, N_Latest64, N_419}

Injections(n) == {f \in [1..n -> 1..n] : \A i, j \in 1..n : f[i] = f[j] => i = j}

(* lists of at most MaxCatalog entries; the ids of a catalog are distinct *)
KernelCatalogs ==
    UNION {{[i \in 1..n |-> [KernelId |-> 100 + id[i], Label |-> lab[i]]] :
              lab \in [1..n -> KernelLabels], id \in Injections(n)} : n \in 0..MaxCatalog}

RegionNames == {"Dallas", "Newark"}

RegionCatalogs ==
    UNION {{[i \in 1..n |-> [DataCenterId |-> 1 + id[i], Location |-> nm[i]]] :
              nm \in [1..n -> RegionNames], id \in Injections(n)} : n \in 0..MaxCatalog}

RAMSizes == {1024, 2048}

DiskGB == {20, 40}

PlanCatalogs ==
    UNION {{[i \in 1..n |-> [PlanId |-> id[i], RAM |-> ram[i], Disk |-> dsk[i]]] :
              ram \in [1..n -> RAMSizes], dsk \in [1..n -> DiskGB], id \in Injections(n)} :
           n \in 0..MaxCatalog}

I_Deb == <<"D","e","b">>

I_12 == <<"1","2">>

I_My == <<"m","y">>

ImageNames == {I_Deb, I_12, I_My}

DistributionEntries ==
    {[DistributionId |-> 130, Label |-> I_Deb], [DistributionId |-> 12, Label |-> I_12]}

ImageEntries ==
    {[ImageId |-> 12, Label |-> I_Deb], [ImageId |-> 12, Label |-> I_My],
     [ImageId |-> 7, Label |-> I_12]}

SeqsUpTo(S, n) == UNION {[1..m -> S] : m \in 0..n}

----------------------------------------------------------------------------
(* Values of the variables a specification does not use *)

DIdle == [id |-> <<>>, old |-> <<>>, new |-> <<>>, partial |-> {}, partialMode |-> FALSE]

WIdle == [pc |-> "idle"]

RemoteIdle ==
    [kernels |-> <<>>, regions |-> <<>>, plans |-> <<>>,
     distributions |-> <<>>, images |-> <<>>,
     linodes |-> <<>>, disks |-> <<>>, configs |-> <<>>, ips |-> <<>>, jobs |-> <<>>]

CacheEmpty == [kernelList |-> NilList, regionList |-> NilList, sizeList |-> NilList]

Pending == [val |-> 0, err |-> "pending"]

----------------------------------------------------------------------------
(* The lists are fetched on first use and kept (getKernelList, getRegionList,
   getSizeList); ok is whether the remote call succeeds *)

getKernelList_storesOnError(ok) == Loaded(IF ok THEN remote.kernels ELSE <<>>)

getKernelList(ok) == IF ok THEN Loaded(remote.kernels) ELSE NilList

getRegionList(ok) == IF ok THEN Loaded(remote.regions) ELSE NilList

getSizeList(ok) == IF ok THEN Loaded(remote.plans) ELSE NilList

Outcomes(cur) == IF cur.nil THEN BOOLEAN ELSE {TRUE}

Logged(cur, call) == IF cur.nil THEN Append(calls, call) ELSE calls

RemoteErr(v) == [val |-> v, err |-> "remote"]

(* first lookup of a run: name to id *)
getKernelID_call ==
    /\ pc = "lookup" /\ loc.kind = "kernel" /\ loc.dir = "id"
    /\ \E ok \in Outcomes(cache.kernelList) :
         LET kl == IF cache.kernelList.nil THEN getKernelList(ok) ELSE cache.kernelList
         IN  /\ cache' = [cache EXCEPT !.kernelList = kl]
             /\ calls' = Logged(cache.kernelList, "Avail.Kernels")
             /\ loc' = [loc EXCEPT !.r1 = IF kl.nil THEN RemoteErr(-1)
                                          ELSE getKernelID(kl.v, loc.arg)]
    /\ pc' = "resolved"
    /\ UNCHANGED <<d, remote, result, w, clock>>

(* id to name: on the id just resolved, or on a requested id *)
getKernelName_call ==
    /\ \/ pc = "lookup" /\ loc.dir = "name"
       \/ pc = "resolved" /\ loc.r1.err = "nil"
    /\ loc.kind = "kernel"
    /\ \E ok \in Outcomes(cache.kernelList) :
         LET kl == IF cache.kernelList.nil THEN getKernelList(ok) ELSE cache.kernelList
             id == IF pc = "lookup" THEN loc.arg ELSE loc.r1.val
         IN  /\ cache' = [cache EXCEPT !.kernelList = kl]
             /\ calls' = Logged(cache.kernelList, "Avail.Kernels")
             /\ loc' = [loc EXCEPT !.r2 = IF kl.nil THEN RemoteErr(<<>>)
                                          ELSE getKernelName(kl.v, id)]
    /\ pc' = "named"
    /\ UNCHANGED <<d, remote, result, w, clock>>

getRegionID_call ==
    /\ pc = "lookup" /\ loc.kind = "region" /\ loc.dir = "id"
    /\ \E ok \in Outcomes(cache.regionList) :
         LET rl == IF cache.regionList.nil THEN getRegionList(ok) ELSE cache.regionList
         IN  /\ cache' = [cache EXCEPT !.regionList = rl]
             /\ calls' = Logged(cache.regionList, "Avail.DataCenters")
             /\ loc' = [loc EXCEPT !.r1 = IF rl.nil THEN RemoteErr(-1)
                                          ELSE getRegionID(rl.v, loc.arg)]
    /\ pc' = "resolved"
    /\ UNCHANGED <<d, remote, result, w, clock>>

getRegionName_call ==
    /\ \/ pc = "lookup" /\ loc.dir = "name"
       \/ pc = "resolved" /\ loc.r1.err = "nil"
    /\ loc.kind = "region"
    /\ \E ok \in Outcomes(cache.regionList) :
         LET rl == IF cache.regionList.nil THEN getRegionList(ok) ELSE cache.regionList
             id == IF pc = "lookup" THEN loc.arg ELSE loc.r1.val
         IN  /\ cache' = [cache EXCEPT !.regionList = rl]
             /\ calls' = Logged(cache.regionList, "Avail.DataCenters")
             /\ loc' = [loc EXCEPT !.r2 = IF rl.nil THEN RemoteErr("")
                                          ELSE getRegionName(rl.v, id)]
    /\ pc' = "named"
    /\ UNCHANGED <<d, remote, result, w, clock>>

getSizeId_call ==
    /\ pc = "lookup" /\ loc.kind = "size" /\ loc.dir = "id"
    /\ \E ok \in Outcomes(cache.sizeList) :
         LET sl == IF cache.sizeList.nil THEN getSizeList(ok) ELSE cache.sizeList
         IN  /\ cache' = [cache EXCEPT !.sizeList = sl]
             /\ calls' = Logged(cache.sizeList, "Avail.LinodePlans")
             /\ loc' = [loc EXCEPT !.r1 = IF sl.nil THEN RemoteErr(-1)
                                          ELSE getSizeId(sl.v, loc.arg)]
    /\ pc' = "resolved"
    /\ UNCHANGED <<d, remote, result, w, clock>>

getSize_call ==
    /\ \/ pc = "lookup" /\ loc.dir = "name"
       \/ pc = "resolved" /\ loc.r1.err = "nil"
    /\ loc.kind = "size"
    /\ \E ok \in Outcomes(cache.sizeList) :
         LET sl == IF cache.sizeList.nil THEN getSizeList(ok) ELSE cache.sizeList
             id == IF pc = "lookup" THEN loc.arg ELSE loc.r1.val
         IN  /\ cache' = [cache EXCEPT !.sizeList = sl]
             /\ calls' = Logged(cache.sizeList, "Avail.LinodePlans")
             /\ loc' = [loc EXCEPT !.r2 = IF sl.nil THEN RemoteErr(-1)
                                          ELSE getSize(sl.v, id)]
    /\ pc' = "named"
    /\ UNCHANGED <<d, remote, result, w, clock>>

(* what the two image catalogs answer when okDist, okImg say the calls succeed *)
DistResp(ok) == [ok |-> ok, list |-> IF ok THEN remote.distributions ELSE <<>>]

CustResp(ok) == [ok |-> ok, list |-> IF ok THEN remote.images ELSE <<>>]

findImage_call ==
    /\ pc = "lookup" /\ loc.kind = "image"
    /\ \E okDist \in BOOLEAN, okImg \in BOOLEAN :
         LET f == findImage(DistResp(okDist), CustResp(okImg), loc.arg)
         IN  /\ calls' = calls \o f.calls
             /\ loc' = [loc EXCEPT !.r1 = f.res]
    /\ pc' = "resolved"
    /\ UNCHANGED <<d, remote, result, cache, w, clock>>

InitLookup ==
    /\ pc = "lookup"
    /\ d = DIdle /\ calls = <<>> /\ result = "none" /\ w = WIdle /\ clock = 0
    /\ cache = CacheEmpty
    /\ \/ \E k \in KernelCatalogs :
            /\ remote = [RemoteIdle EXCEPT !.kernels = k]
            /\ \/ \E n \in KernelNames :
                    loc = [kind |-> "kernel", dir |-> "id", arg |-> n, r1 |-> Pending, r2 |-> Pending, run |-> 1]
               \/ \E i \in 101..(100 + MaxCatalog) :
                    loc = [kind |-> "kernel", dir |-> "name", arg |-> i, r1 |-> Pending, r2 |-> Pending, run |-> 1]
       \/ \E r \in RegionCatalogs :
            /\ remote = [RemoteIdle EXCEPT !.regions = r]
            /\ \/ \E n \in RegionNames :
                    loc = [kind |-> "region", dir |-> "id", arg |-> n, r1 |-> Pending, r2 |-> Pending, run |-> 1]
               \/ \E i \in 2..(1 + MaxCatalog) :
                    loc = [kind |-> "region", dir |-> "name", arg |-> i, r1 |-> Pending, r2 |-> Pending, run |-> 1]
       \/ \E s \in PlanCatalogs :
            /\ remote = [RemoteIdle EXCEPT !.plans = s]
            /\ \/ \E n \in RAMSizes :
                    loc = [kind |-> "size", dir |-> "id", arg |-> n, r1 |-> Pending, r2 |-> Pending, run |-> 1]
               \/ \E i \in 1..MaxCatalog :
                    loc = [kind |-> "size", dir |-> "name", arg |-> i, r1 |-> Pending, r2 |-> Pending, run |-> 1]
       \/ \E ds \in SeqsUpTo(DistributionEntries, MaxCatalog),
             im \in SeqsUpTo(ImageEntries, MaxCatalog), n \in ImageNames :
            /\ remote = [RemoteIdle EXCEPT !.distributions = ds, !.images = im]
            /\ loc = [kind |-> "image", dir |-> "id", arg |-> n, r1 |-> Pending, r2 |-> Pending, run |-> 1]

(* the lists outlive a handler run: the same process serves a next lookup *)
LookupArgs(kind, dir) ==
    IF kind = "kernel" THEN (IF dir = "id" THEN KernelNames ELSE 101..(100 + MaxCatalog))
    ELSE IF kind = "region" THEN (IF dir = "id" THEN RegionNames ELSE 2..(1 + MaxCatalog))
    ELSE (IF dir = "id" THEN RAMSizes ELSE 1..MaxCatalog)

NextRun ==
    /\ pc = "named" \/ (pc = "resolved" /\ loc.r1.err # "nil")
    /\ loc.kind \in {"kernel", "region", "size"}
    /\ loc.run < MaxRuns
    /\ \E dir \in {"id", "name"} : \E arg \in LookupArgs(loc.kind, dir) :
         loc' = [kind |-> loc.kind, dir |-> dir, arg |-> arg, r1 |-> Pending, r2 |-> Pending,
                 run |-> loc.run + 1]
    /\ pc' = "lookup"
    /\ UNCHANGED <<d, remote, calls, result, cache, w, clock>>

NextLookup ==
    \/ NextRun
    \/ getKernelID_call
    \/ getKernelName_call
    \/ getRegionID_call
    \/ getRegionName_call
    \/ getSizeId_call
    \/ getSize_call
    \/ findImage_call

SpecLookup == InitLookup /\ [][NextLookup]_vars

----------------------------------------------------------------------------
(* Job waiter: waitForJobsToComplete and waitForJobsToCompleteWaitMinutes.
   Time is in seconds.  A Job.List call takes 0..MaxCallSecs seconds, the
   sleep takes one second.  The remote finishes and queues jobs on its own. *)

SecondsPerMinute == 60

FixedWaitMinutes == 5

SleepSeconds == 1

Deadline_seconds(fn, waitMinutes) ==
    IF fn = "fixed" THEN FixedWaitMinutes ELSE waitMinutes

(* the duration time.Since(start) is compared with *)
Deadline(fn, waitMinutes) ==
    IF fn = "fixed" THEN FixedWaitMinutes * SecondsPerMinute
    ELSE waitMinutes * SecondsPerMinute

JobsComplete_lastOnly(jobs) ==
    Len(jobs) = 0 \/ jobs[Len(jobs)].HostFinishDtSet

(* complete := true; for i := range jobs { if !IsSet() { complete = false } } *)
JobsComplete(jobs) ==
    \A i \in 1..Len(jobs) : jobs[i].HostFinishDtSet

OnListError_retry(ww) ==
    [ww EXCEPT !.lastErr = TRUE, !.lastJobs = <<>>, !.pc = "sleep"]

(* if err != nil { return err } *)
OnListError(ww) ==
    [ww EXCEPT !.lastErr = TRUE, !.lastJobs = <<>>, !.pc = "done", !.result = "error"]

waitForJobsToComplete_JobList ==
    /\ w.pc = "list"
    /\ \E ok \in BOOLEAN, secs \in 0..MaxCallSecs :
         /\ clock' = clock + secs
         /\ IF ~ok
            THEN w' = OnListError([w EXCEPT !.lastCallSecs = secs])
            ELSE w' = [w EXCEPT !.lastErr = FALSE,
                                !.lastJobs = remote.jobs,
                                !.lastCallSecs = secs,
                                !.pc = IF JobsComplete(remote.jobs) THEN "done" ELSE "sleep",
                                !.result = IF JobsComplete(remote.jobs) THEN "ok" ELSE "none"]
    /\ UNCHANGED <<pc, d, remote, calls, result, loc, cache>>

waitForJobsToComplete_Sleep ==
    /\ w.pc = "sleep"
    /\ clock' = clock + SleepSeconds
    /\ IF clock' - w.start > Deadline(w.fn, w.waitMinutes)
       THEN w' = [w EXCEPT !.slept = TRUE, !.pc = "done", !.result = "timeout"]
       ELSE w' = [w EXCEPT !.slept = TRUE, !.pc = "list"]
    /\ UNCHANGED <<pc, d, remote, calls, result, loc, cache>>

(* the remote completes a queued job *)
RemoteJobFinish ==
    /\ w.pc # "done"
    /\ \E i \in 1..Len(remote.jobs) :
         /\ ~remote.jobs[i].HostFinishDtSet
         /\ remote' = [remote EXCEPT !.jobs[i].HostFinishDtSet = TRUE]
    /\ UNCHANGED <<pc, d, calls, result, loc, cache, w, clock>>

(* the remote queues another job for the instance *)
RemoteJobEnqueue ==
    /\ w.pc # "done"
    /\ Len(remote.jobs) < MaxJobs
    /\ remote' = [remote EXCEPT !.jobs = Append(@, [HostFinishDtSet |-> FALSE])]
    /\ UNCHANGED <<pc, d, calls, result, loc, cache, w, clock>>

JobLists == SeqsUpTo({[HostFinishDtSet |-> FALSE], [HostFinishDtSet |-> TRUE]}, MaxJobs)

WStart(fn, waitMinutes, now) ==
    [pc |-> "list", fn |-> fn, waitMinutes |-> waitMinutes, start |-> now,
     slept |-> FALSE, lastErr |-> FALSE, lastJobs |-> <<>>, lastCallSecs |-> 0,
     result |-> "none"]

InitWait ==
    /\ pc = "wait"
    /\ d = DIdle /\ calls = <<>> /\ result = "none" /\ cache = CacheEmpty
    /\ loc = [kind |-> "wait"]
    /\ clock = 0
    /\ \E jobs \in JobLists : remote = [RemoteIdle EXCEPT !.jobs = jobs]
    /\ \/ w = WStart("fixed", FixedWaitMinutes, 0)
       \/ \E m \in 0..MaxWaitMinutes : w = WStart("minutes", m, 0)

NextWait ==
    \/ waitForJobsToComplete_JobList
    \/ waitForJobsToComplete_Sleep
    \/ RemoteJobFinish
    \/ RemoteJobEnqueue

SpecWait == InitWait /\ [][NextWait]_vars

(* the waiter's thread keeps running: it is never suspended for good between
   a poll and the sleep that follows it *)
SpecWaitFair ==
    SpecWait /\ WF_vars(waitForJobsToComplete_JobList \/ waitForJobsToComplete_Sleep)

----------------------------------------------------------------------------
(* schema.ResourceData and the remote account of the create and update runs *)

RECURSIVE ParseInt(_)
(* strconv.ParseInt(s, 10, 64) on a string of decimal digits *)
ParseInt(s) ==
    IF Len(s) = 0 THEN [val |-> 0, err |-> "syntax"]
    ELSE LET c == s[Len(s)]
             dv == {i \in 0..9 : Digit[i + 1] = c}
         IN  IF dv = {} THEN [val |-> 0, err |-> "syntax"]
             ELSE IF Len(s) = 1 THEN [val |-> CHOOSE i \in dv : TRUE, err |-> "nil"]
             ELSE LET h == ParseInt(SubSeq(s, 1, Len(s) - 1))
                  IN  IF h.err # "nil" THEN h
                      ELSE [val |-> 10 * h.val + (CHOOSE i \in dv : TRUE), err |-> "nil"]

HasChange(key) == d.old[key] # d.new[key]

Get(key) == d.new[key]

SetId_dropped(dd, id) == dd

(* d.SetId *)
SetId(dd, id) == [dd EXCEPT !.id = id]

SetPartial(dd, keys) == [dd EXCEPT !.partial = @ \cup keys]

(* a remote call as the handler sees it: its arguments and whether it
   returned without an error *)
Call(op, args, ok) == [op |-> op, a |-> args, ok |-> ok]

Ops(log) == {log[i].op : i \in 1..Len(log)}

RECURSIVE SumSizes(_)
SumSizes(disks) ==
    IF disks = <<>> THEN 0 ELSE disks[1].Size + SumSizes(Tail(disks))

PlanCatalog ==
    << [PlanId |-> 1, RAM |-> 1024, Disk |-> 20],
       [PlanId |-> 2, RAM |-> 2048, Disk |-> 40] >>

UnknownRAM == 8192

FixedKernels ==
    << [KernelId |-> 138, Label |-> K_Latest64],
       [KernelId |-> 210, Label |-> K_41986] >>

FixedRegions == << [DataCenterId |-> 2, Location |-> "Dallas"] >>

LinodeId0 == 7

(* what the handler returns: the run is over *)
Return(res) == /\ result' = res /\ pc' = "done"

----------------------------------------------------------------------------
(* Volume arithmetic of the size step *)

(* getTotalDiskSize: listing is [ok, list], what client.Disk.List answers *)
getTotalDiskSize(listing) ==
    IF ~listing.ok THEN [val |-> -1, err |-> "remote"]
    ELSE [val |-> SumSizes(listing.list), err |-> "nil"]

RECURSIVE BiggestFrom(_, _, _)
(* the loop of getBiggestDisk: a later volume replaces the current one only
   when it is strictly bigger *)
BiggestFrom(disks, id, size) ==
    IF disks = <<>> THEN [id |-> id, size |-> size]
    ELSE IF disks[1].Size > size
         THEN BiggestFrom(Tail(disks), disks[1].DiskId, disks[1].Size)
         ELSE BiggestFrom(Tail(disks), id, size)

getBiggestDisk(listing) ==
    IF ~listing.ok THEN [id |-> -1, size |-> -1, err |-> "remote"]
    ELSE LET b == BiggestFrom(listing.list, 0, 0)
         IN  [id |-> b.id, size |-> b.size, err |-> "nil"]

(* if currentDiskSize > newDiskSize { return error } *)
ResizeRefused(currentDiskSize, newDiskSize) == currentDiskSize > newDiskSize

(* waitMinutes = ((linode.TotalHD / 1024) * 3) *)
ResizeWaitMinutes(totalHD) == (totalHD \div 1024) * 3

(* expandedDiskSize := (newDiskSize - (currentDiskSize - biggestDiskSize)) *)
ExpandedDiskSize(newDiskSize, currentDiskSize, biggestDiskSize) ==
    newDiskSize - (currentDiskSize - biggestDiskSize)

DiskListing(ok) == [ok |-> ok, list |-> IF ok THEN remote.disks ELSE <<>>]

(* outcomes of a run of the job waiter, as SpecWait produces them *)
WaitOutcomes == {"ok", "timeout", "error"}

----------------------------------------------------------------------------
(* resourceLinodeLinodeUpdate, one action per remote call *)

Update_LinodeList ==
    /\ pc = "update"
    /\ LET id == ParseInt(d.id)
       IN  IF id.err # "nil"
           THEN /\ Return("error")
                /\ UNCHANGED <<calls, loc>>
           ELSE \E ok \in BOOLEAN :
                  /\ calls' = Append(calls, Call("Linode.List", <<id.val>>, ok))
                  /\ IF ~ok THEN Return("error") /\ UNCHANGED loc
                     ELSE IF Len(remote.linodes) = 0
                     THEN Return("panic") /\ UNCHANGED loc   \* linodes.Linodes[0]
                     ELSE /\ loc' = [loc EXCEPT !.id = id.val, !.linode = remote.linodes[1]]
                          /\ pc' = "settings"
                          /\ UNCHANGED result
    /\ UNCHANGED <<d, remote, cache, w, clock>>

SettingsUpdates_always(linode) == {"lpm_displayGroup", "Label"}

(* updates of changeLinodeSettings: the keys that differ from the linode *)
SettingsUpdates(linode) ==
    (IF Get("group") # linode.LpmDisplayGroup THEN {"lpm_displayGroup"} ELSE {})
    \cup (IF Get("name") # linode.Label THEN {"Label"} ELSE {})

ApplySettings(linode, updates) ==
    [linode EXCEPT !.LpmDisplayGroup = IF "lpm_displayGroup" \in updates THEN Get("group") ELSE @,
                   !.Label = IF "Label" \in updates THEN Get("name") ELSE @]

Update_changeLinodeSettings ==
    /\ pc = "settings"
    /\ IF ~(HasChange("name") \/ HasChange("group"))
       THEN /\ pc' = "size"
            /\ UNCHANGED <<d, remote, calls, result>>
       ELSE LET updates == SettingsUpdates(loc.linode)
            IN  IF updates = {}
                THEN /\ d' = SetPartial(d, {"group", "name"})
                     /\ pc' = "size"
                     /\ UNCHANGED <<remote, calls, result>>
                ELSE \E ok \in BOOLEAN :
                       /\ calls' = Append(calls, Call("Linode.Update", <<loc.linode.LinodeId, updates>>, ok))
                       /\ IF ok
                          THEN /\ remote' = [remote EXCEPT !.linodes[1] = ApplySettings(@, updates)]
                               /\ d' = SetPartial(d, {"group", "name"})
                               /\ pc' = "size"
                               /\ UNCHANGED result
                          ELSE Return("error") /\ UNCHANGED <<d, remote>>
    /\ UNCHANGED <<loc, cache, w, clock>>

(* changeLinodeSize up to the plan id: getSizeId, fetching the list if needed *)
changeLinodeSize_getSizeId ==
    /\ pc = "size"
    /\ IF ~HasChange("size")
       THEN /\ pc' = "configs"
            /\ UNCHANGED <<calls, result, loc, cache>>
       ELSE \E ok \in Outcomes(cache.sizeList) :
              LET sl == IF cache.sizeList.nil THEN getSizeList(ok) ELSE cache.sizeList
                  r == IF sl.nil THEN RemoteErr(-1) ELSE getSizeId(sl.v, Get("size"))
              IN  /\ cache' = [cache EXCEPT !.sizeList = sl]
                  /\ calls' = IF cache.sizeList.nil
                              THEN Append(calls, Call("Avail.LinodePlans", <<>>, ok)) ELSE calls
                  /\ IF r.err # "nil"
                     THEN Return("error") /\ UNCHANGED loc
                     ELSE /\ loc' = [loc EXCEPT !.newPlanID = r.val]
                          /\ pc' = "size_check"
                          /\ UNCHANGED result
    /\ UNCHANGED <<d, remote, w, clock>>

(* the safety check: both errors are overwritten or dropped, the values are
   compared as returned *)
changeLinodeSize_check ==
    /\ pc = "size_check"
    /\ \E ok \in BOOLEAN :
         LET cur == getTotalDiskSize(DiskListing(ok))
             new == getPlanDiskSize(cache.sizeList.v, loc.newPlanID)
         IN  /\ calls' = Append(calls, Call("Disk.List", <<loc.linode.LinodeId>>, ok))
             /\ loc' = [loc EXCEPT !.currentDiskSize = cur.val, !.newDiskSize = new.val]
             /\ IF ResizeRefused(cur.val, new.val)
                THEN Return("error")
                ELSE pc' = "size_resize" /\ UNCHANGED result
    /\ UNCHANGED <<d, remote, cache, w, clock>>

(* the remote resizes when the call gets through and the volumes fit *)
ResizeOk(ok, planId) ==
    ok /\ SumSizes(remote.disks) <= getPlanDiskSize(remote.plans, planId).val

(* a resized instance is left powered off *)
RemoteResize(ok, planId) ==
    LET hd == getPlanDiskSize(remote.plans, planId).val
    IN  IF ResizeOk(ok, planId)
        THEN [remote EXCEPT !.linodes[1].PlanId = planId, !.linodes[1].TotalHD = hd,
                            !.linodes[1].Status = 2]
        ELSE remote

changeLinodeSize_Resize ==
    /\ pc = "size_resize"
    /\ \E ok \in BOOLEAN :
         /\ calls' = Append(calls, Call("Linode.Resize", <<loc.linode.LinodeId, loc.newPlanID>>,
                                        ResizeOk(ok, loc.newPlanID)))
         /\ remote' = RemoteResize(ok, loc.newPlanID)   \* return values are dropped
    /\ loc' = [loc EXCEPT !.waitMinutes = ResizeWaitMinutes(loc.linode.TotalHD)]
    /\ pc' = "size_wait1"
    /\ UNCHANGED <<d, result, cache, w, clock>>

changeLinodeSize_wait1 ==
    /\ pc = "size_wait1"
    /\ \E o \in WaitOutcomes :
         /\ calls' = Append(calls, Call("Job.List", <<loc.linode.LinodeId, "minutes", loc.waitMinutes>>, o = "ok"))
         /\ IF o # "ok" THEN Return("error")
            ELSE /\ pc' = IF Get("disk_expansion") THEN "size_expand" ELSE "size_boot"
                 /\ UNCHANGED result
    /\ UNCHANGED <<d, remote, loc, cache, w, clock>>

(* the remote resizes a volume when the call gets through, the volume exists
   and the volumes still fit the plan *)
DisksAfterResize(diskId, size) ==
    [i \in 1..Len(remote.disks) |->
        IF remote.disks[i].DiskId = diskId THEN [remote.disks[i] EXCEPT !.Size = size]
        ELSE remote.disks[i]]

DiskResizeOk(ok, diskId, size) ==
    /\ ok
    /\ \E i \in 1..Len(remote.disks) : remote.disks[i].DiskId = diskId
    /\ size > 0
    /\ SumSizes(DisksAfterResize(diskId, size)) <= remote.linodes[1].TotalHD

RemoteDiskResize(ok, diskId, size) ==
    IF DiskResizeOk(ok, diskId, size)
    THEN [remote EXCEPT !.disks = DisksAfterResize(diskId, size)]
    ELSE remote

changeLinodeSize_expand ==
    /\ pc = "size_expand"
    /\ \E okList \in BOOLEAN, okResize \in BOOLEAN :
         LET b == getBiggestDisk(DiskListing(okList))
             expandedDiskSize == ExpandedDiskSize(loc.newDiskSize, loc.currentDiskSize, b.size)
         IN  IF b.err # "nil"
             THEN /\ calls' = Append(calls, Call("Disk.List", <<loc.linode.LinodeId>>, okList))
                  /\ Return("error")
                  /\ UNCHANGED remote
             ELSE /\ calls' = calls \o << Call("Disk.List", <<loc.linode.LinodeId>>, okList),
                                         Call("Disk.Resize",
                                              <<loc.linode.LinodeId, b.id, expandedDiskSize>>,
                                              DiskResizeOk(okResize, b.id, expandedDiskSize)) >>
                  /\ remote' = RemoteDiskResize(okResize, b.id, expandedDiskSize)
                  /\ pc' = "size_wait2"
                  /\ UNCHANGED result
    /\ UNCHANGED <<d, loc, cache, w, clock>>

changeLinodeSize_wait2 ==
    /\ pc = "size_wait2"
    /\ \E o \in WaitOutcomes :
         /\ calls' = Append(calls, Call("Job.List", <<loc.linode.LinodeId, "minutes", loc.waitMinutes>>, o = "ok"))
         /\ IF o # "ok" THEN Return("error")
            ELSE pc' = "size_boot" /\ UNCHANGED result
    /\ UNCHANGED <<d, remote, loc, cache, w, clock>>

(* a booted instance is running *)
RemoteBoot(ok) == IF ok THEN [remote EXCEPT !.linodes[1].Status = 1] ELSE remote

changeLinodeSize_Boot ==
    /\ pc = "size_boot"
    /\ \E ok \in BOOLEAN :       \* what client.Linode.Boot returns is dropped
         /\ calls' = Append(calls, Call("Linode.Boot", <<loc.linode.LinodeId, 0>>, ok))
         /\ remote' = RemoteBoot(ok)
    /\ d' = SetPartial(d, {"size"})
    /\ pc' = "size_wait3"
    /\ UNCHANGED <<result, loc, cache, w, clock>>

Update_waitAfterResize ==
    /\ pc = "size_wait3"
    /\ \E o \in WaitOutcomes :
         /\ calls' = Append(calls, Call("Job.List", <<loc.id, "fixed", FixedWaitMinutes>>, o = "ok"))
         /\ IF o # "ok" THEN Return("error")
            ELSE pc' = "configs" /\ UNCHANGED result
    /\ UNCHANGED <<d, remote, loc, cache, w, clock>>

SingleConfig_atLeastOne(configs) == Len(configs) >= 1

(* len(configResp.LinodeConfigs) != 1 is an error *)
SingleConfig(configs) == Len(configs) = 1

Update_ConfigList ==
    /\ pc = "configs"
    /\ \E ok \in BOOLEAN :
         /\ calls' = Append(calls, Call("Config.List", <<loc.id>>, ok))
         /\ IF ~ok \/ ~SingleConfig(remote.configs)
            THEN Return("error") /\ UNCHANGED loc
            ELSE /\ loc' = [loc EXCEPT !.config = remote.configs[1]]
                 /\ pc' = "config_update"
                 /\ UNCHANGED result
    /\ UNCHANGED <<d, remote, cache, w, clock>>

(* updates of changeLinodeConfig: the helper flags that changed *)
(* boolToString *)
boolToString(val) == IF val THEN "true" ELSE "false"

(* a flag sent or stored as text, taken as a boolean again: only "true" is set *)
ParseBool(s) == s = "true"

(* the updates map with both helper flags in it, changed or not *)
ConfigUpdates_both ==
    [k \in {"helper_distro", "helper_network"} |->
        IF k = "helper_distro" THEN boolToString(Get("helper_distro"))
        ELSE boolToString(Get("manage_private_ip_automatically"))]

(* updates := make(map[string]string): a key for each helper flag that
   d.HasChange reports, with the desired value as text *)
ConfigUpdates ==
    [k \in (IF HasChange("helper_distro") THEN {"helper_distro"} ELSE {})
           \cup (IF HasChange("manage_private_ip_automatically")
                 THEN {"helper_network"} ELSE {}) |->
        IF k = "helper_distro" THEN boolToString(Get("helper_distro"))
        ELSE boolToString(Get("manage_private_ip_automatically"))]

ApplyConfig(config, kernelId, updates) ==
    [config EXCEPT !.KernelId = kernelId,
                   !.HelperDistro = IF "helper_distro" \in DOMAIN updates
                                    THEN ParseBool(updates["helper_distro"]) ELSE @,
                   !.HelperNetwork = IF "helper_network" \in DOMAIN updates
                                     THEN ParseBool(updates["helper_network"]) ELSE @]

Update_changeLinodeConfig ==
    /\ pc = "config_update"
    /\ IF DOMAIN ConfigUpdates = {}
       THEN /\ d' = SetPartial(d, {"helper_distro", "manage_private_ip_automatically"})
            /\ pc' = "private"
            /\ UNCHANGED <<remote, calls, result>>
       ELSE \E ok \in BOOLEAN :
              /\ calls' = Append(calls, Call("Config.Update",
                              <<loc.config.ConfigId, loc.config.LinodeId, loc.config.KernelId,
                                ConfigUpdates>>, ok))
              /\ IF ok
                 THEN /\ remote' = [remote EXCEPT !.configs[1] =
                                       ApplyConfig(@, loc.config.KernelId, ConfigUpdates)]
                      /\ d' = SetPartial(d, {"helper_distro", "manage_private_ip_automatically"})
                      /\ pc' = "private"
                      /\ UNCHANGED result
                 ELSE Return("error") /\ UNCHANGED <<d, remote>>
    /\ UNCHANGED <<loc, cache, w, clock>>

PrivateIP == "192.168.0.7"

PublicIP == "203.0.113.7"

RebootAfterAddPrivate_always == TRUE

(* if d.Get("manage_private_ip_automatically").(bool) { reboot and wait } *)
RebootAfterAddPrivate == Get("manage_private_ip_automatically")

Update_privateNetworking ==
    /\ pc = "private"
    /\ IF ~HasChange("private_networking")
       THEN /\ pc' = "read"
            /\ UNCHANGED <<remote, calls, result>>
       ELSE IF ~Get("private_networking")
       THEN /\ Return("error")
            /\ UNCHANGED <<remote, calls>>
       ELSE \E ok \in BOOLEAN :
              /\ calls' = Append(calls, Call("Ip.AddPrivate", <<loc.id>>, ok))
              /\ IF ok
                 THEN /\ remote' = [remote EXCEPT !.ips =
                                       Append(@, [IPAddress |-> PrivateIP, IsPublic |-> 0])]
                      /\ pc' = IF RebootAfterAddPrivate THEN "private_reboot" ELSE "read"
                      /\ UNCHANGED result
                 ELSE Return("error") /\ UNCHANGED remote
    /\ UNCHANGED <<d, loc, cache, w, clock>>

Update_Reboot ==
    /\ pc = "private_reboot"
    /\ \E ok \in BOOLEAN :
         /\ calls' = Append(calls, Call("Linode.Reboot", <<loc.id, 0>>, ok))
         /\ IF ok THEN pc' = "private_wait" /\ UNCHANGED result
            ELSE Return("error")
    /\ UNCHANGED <<d, remote, loc, cache, w, clock>>

Update_waitAfterReboot ==
    /\ pc = "private_wait"
    /\ \E o \in WaitOutcomes :
         /\ calls' = Append(calls, Call("Job.List", <<loc.id, "fixed", FixedWaitMinutes>>, o = "ok"))
         /\ IF o # "ok" THEN Return("error")
            ELSE pc' = "read" /\ UNCHANGED result
    /\ UNCHANGED <<d, remote, loc, cache, w, clock>>

----------------------------------------------------------------------------
(* resourceLinodeLinodeRead: the read-back that ends create and update.  It is
   one action; failAt names the remote call that fails, 0 for none:
   1 Linode.List, 2 Ip.List, 3 Avail.DataCenters, 4 Avail.LinodePlans,
   5 and 6 Disk.List, 7 Config.List, 8 Avail.Kernels.  A catalog call is only
   made when its list is not loaded yet. *)

ReadCalls == 8

(* strings.EqualFold(t, "swap") *)
IsSwap(t) == t \in {"swap", "Swap", "SWAP"}

RECURSIVE LastWhere(_, _, _, _)
(* for i := range list { if match { x = value } }: the last match wins *)
LastWhere(list, match(_), value(_), init) ==
    IF list = <<>> THEN init
    ELSE LastWhere(Tail(list), match, value,
                   IF match(list[1]) THEN value(list[1]) ELSE init)

(* getIps: the last public and the last other address listed *)
getIps(ips) ==
    [public  |-> LastWhere(ips, LAMBDA a : a.IsPublic = 1, LAMBDA a : a.IPAddress, ""),
     private |-> LastWhere(ips, LAMBDA a : a.IsPublic # 1, LAMBDA a : a.IPAddress, "")]

(* the helper flags the read-back stores: both are read from HelperDistro *)
ReadHelpers(dd, config) ==
    [dd EXCEPT !.new.helper_distro = ParseBool(boolToString(config.HelperDistro)),
               !.new.manage_private_ip_automatically =
                   ParseBool(boolToString(config.HelperDistro))]

ReadBack(failAt) ==
    LET id == ParseInt(d.id)
        c1 == Append(calls, Call("Linode.List", <<id.val>>, failAt # 1))
        linode == remote.linodes[1]
        c2 == Append(c1, Call("Ip.List", <<id.val>>, failAt # 2))
        ips == getIps(remote.ips)
        d1 == [d EXCEPT !.new.ip_address = ips.public,
                        !.new.private_networking = (ips.private # ""),
                        !.new.private_ip_address = IF ips.private # "" THEN ips.private ELSE @,
                        !.new.name = linode.Label,
                        !.new.group = linode.LpmDisplayGroup]
        rl == IF cache.regionList.nil THEN getRegionList(failAt # 3) ELSE cache.regionList
        c3 == IF cache.regionList.nil THEN Append(c2, Call("Avail.DataCenters", <<>>, failAt # 3)) ELSE c2
        k3 == [cache EXCEPT !.regionList = rl]
        regionName == getRegionName(rl.v, linode.DataCenterId)
        d2 == [d1 EXCEPT !.new.region = regionName.val]
        sl == IF cache.sizeList.nil THEN getSizeList(failAt # 4) ELSE cache.sizeList
        c4 == IF cache.sizeList.nil THEN Append(c3, Call("Avail.LinodePlans", <<>>, failAt # 4)) ELSE c3
        k4 == [k3 EXCEPT !.sizeList = sl]
        size == getSize(sl.v, linode.PlanId)
        d3 == [d2 EXCEPT !.new.size = size.val, !.new.status = linode.Status]
        sizeId == getSizeId(sl.v, size.val)
        plan_storage == getPlanDiskSize(sl.v, sizeId.val)
        d4 == [d3 EXCEPT !.new.plan_storage = plan_storage.val]
        c5 == Append(c4, Call("Disk.List", <<linode.LinodeId>>, failAt # 5))
        total == getTotalDiskSize(DiskListing(failAt # 5))
        d5 == [d4 EXCEPT !.new.plan_storage_utilized = total.val]
        c6 == Append(c5, Call("Disk.List", <<linode.LinodeId>>, failAt # 6))
        swap_size == LastWhere(remote.disks, LAMBDA x : IsSwap(x.Type), LAMBDA x : x.Size, 0)
        d6 == [d5 EXCEPT !.new.swap_size = swap_size]
        c7 == Append(c6, Call("Config.List", <<id.val>>, failAt # 7))
        config == remote.configs[1]
        d7 == ReadHelpers(d6, config)
        kl == IF cache.kernelList.nil THEN getKernelList(failAt # 8) ELSE cache.kernelList
        c8 == IF cache.kernelList.nil THEN Append(c7, Call("Avail.Kernels", <<>>, failAt # 8)) ELSE c7
        k8 == [k4 EXCEPT !.kernelList = kl]
        kernelName == getKernelName(kl.v, config.KernelId)
        d8 == [d7 EXCEPT !.new.kernel = kernelName.val]
        Out(dd, kk, cc, res) == [d |-> dd, cache |-> kk, calls |-> cc, result |-> res]
    IN  IF id.err # "nil" THEN Out(d, cache, calls, "error")
        ELSE IF failAt = 1 THEN Out(d, cache, c1, "error")
        ELSE IF Len(remote.linodes) # 1 THEN Out(SetId(d, <<>>), cache, c1, "ok")
        ELSE IF failAt = 2 THEN Out(d, cache, c2, "error")
        ELSE IF rl.nil \/ regionName.err # "nil" THEN Out(d1, k3, c3, "error")
        ELSE IF sl.nil \/ size.err # "nil" THEN Out(d2, k4, c4, "error")
        ELSE IF sizeId.err # "nil" \/ plan_storage.err # "nil" THEN Out(d3, k4, c4, "error")
        ELSE IF failAt = 5 THEN Out(d4, k4, c5, "error")
        ELSE IF failAt = 6 THEN Out(d5, k4, c6, "error")
        ELSE IF failAt = 7 THEN Out(d6, k4, c7, "error")
        ELSE IF Len(remote.configs) # 1 THEN Out(d6, k4, c7, "ok")
        ELSE IF kl.nil \/ kernelName.err # "nil" THEN Out(d7, k8, c8, "error")
        ELSE Out(d8, k8, c8, "ok")

resourceLinodeLinodeRead ==
    /\ pc = "read"
    /\ \E failAt \in 0..ReadCalls :
         LET r == ReadBack(failAt)
         IN  /\ d' = r.d
             /\ cache' = r.cache
             /\ calls' = r.calls
             /\ Return(r.result)
    /\ UNCHANGED <<remote, loc, w, clock>>

----------------------------------------------------------------------------
(* The update runs that are checked *)

NoLinode ==
    [LinodeId |-> 0, Label |-> "", LpmDisplayGroup |-> "", PlanId |-> 0, TotalHD |-> 0,
     DataCenterId |-> 0, Status |-> 0]

NoConfig ==
    [ConfigId |-> 0, LinodeId |-> 0, KernelId |-> 0, HelperDistro |-> FALSE,
     HelperNetwork |-> FALSE, DiskList |-> <<>>]

Locals(kind) ==
    [kind |-> kind, id |-> 0, linode |-> NoLinode, newPlanID |-> 0, currentDiskSize |-> 0,
     newDiskSize |-> 0, waitMinutes |-> 0, config |-> NoConfig,
     regionId |-> 0, rootDisk |-> 0, swapDisk |-> 0, kernelId |-> 0]

Attrs(name, size, helper_distro, manage, private_networking, disk_expansion, swap_size) ==
    [name |-> name, group |-> "Linode", size |-> size, helper_distro |-> helper_distro,
     manage_private_ip_automatically |-> manage, private_networking |-> private_networking,
     disk_expansion |-> disk_expansion, swap_size |-> swap_size,
     image |-> I_Deb, kernel |-> N_Latest64, region |-> "Dallas",
     ip_address |-> "", private_ip_address |-> "", status |-> 0,
     plan_storage |-> 0, plan_storage_utilized |-> 0]

DiskSizes == {10240, 30720}

(* volumes of an existing instance: the first is the root volume, a second one
   is the swap volume *)
Volumes(sizes) ==
    [i \in 1..Len(sizes) |->
        [DiskId |-> 10 + i, Type |-> IF i = 2 THEN "swap" ELSE "ext4",
         Label |-> IF i = 2 THEN <<"swap">> ELSE <<"Root", LinodeId0, "Base", 130>>,
         Size |-> sizes[i]]]

RECURSIVE Sum(_)
Sum(ns) == IF ns = <<>> THEN 0 ELSE ns[1] + Sum(Tail(ns))

ConfigOf(i, helper_distro, manage) ==
    [ConfigId |-> 40 + i, LinodeId |-> LinodeId0, KernelId |-> 138,
     HelperDistro |-> helper_distro, HelperNetwork |-> manage,
     DiskList |-> Itoa(11) \o <<",">> \o Itoa(12)]

RunningLinode(label, planId) ==
    [LinodeId |-> LinodeId0, Label |-> label, LpmDisplayGroup |-> "Linode",
     PlanId |-> planId, TotalHD |-> getPlanDiskSize(PlanCatalog, planId).val,
     DataCenterId |-> 2, Status |-> 1]

RemoteAccount ==
    [RemoteIdle EXCEPT !.kernels = FixedKernels, !.regions = FixedRegions,
                       !.plans = PlanCatalog,
                       !.distributions = <<[DistributionId |-> 130, Label |-> I_Deb]>>,
                       !.images = <<[ImageId |-> 12, Label |-> I_My]>>]

InitUpdate ==
    /\ pc = "update"
    /\ calls = <<>> /\ result = "none" /\ w = WIdle /\ clock = 0
    /\ loc = Locals("update")
    /\ \E newName \in {"a", "b"}, label \in {"a", "b"},
          oldSize \in {1024, 2048}, newSize \in {1024, 2048, UnknownRAM},
          sizes \in SeqsUpTo(DiskSizes, MaxDisks),
          disk_expansion \in BOOLEAN, helper_distro \in BOOLEAN, manage \in BOOLEAN,
          pnOld \in BOOLEAN, pnNew \in BOOLEAN,
          nconf \in 0..MaxConfigs, loaded \in BOOLEAN, exists \in BOOLEAN,
          newKernel \in {N_Latest64, N_419} :
         LET planId == getSizeId(PlanCatalog, oldSize).val
             swap == IF Len(sizes) >= 2 THEN sizes[2] ELSE 0
         IN  /\ Sum(sizes) <= getPlanDiskSize(PlanCatalog, planId).val
             /\ ~exists => (helper_distro /\ manage /\ nconf = 1 /\ loaded /\ ~disk_expansion
                             /\ newKernel = N_Latest64)
             /\ d = [id |-> Itoa(LinodeId0),
                     old |-> Attrs("a", oldSize, TRUE, TRUE, pnOld, disk_expansion, swap),
                     new |-> [Attrs(newName, newSize, helper_distro, manage, pnNew,
                                    disk_expansion, swap) EXCEPT !.kernel = newKernel],
                     partial |-> {}, partialMode |-> TRUE]
             /\ remote = [RemoteAccount EXCEPT
                            !.linodes = IF exists THEN <<RunningLinode(label, planId)>> ELSE <<>>,
                            !.disks = Volumes(sizes),
                            !.configs = [i \in 1..nconf |-> ConfigOf(i, TRUE, TRUE)],
                            !.ips = <<[IPAddress |-> PublicIP, IsPublic |-> 1]>> \o
                                    (IF pnOld THEN <<[IPAddress |-> PrivateIP, IsPublic |-> 0]>>
                                     ELSE <<>>)]
             /\ cache = IF loaded THEN [CacheEmpty EXCEPT !.sizeList = Loaded(PlanCatalog)]
                        ELSE CacheEmpty

NextUpdate ==
    \/ Update_LinodeList
    \/ Update_changeLinodeSettings
    \/ changeLinodeSize_getSizeId
    \/ changeLinodeSize_check
    \/ changeLinodeSize_Resize
    \/ changeLinodeSize_wait1
    \/ changeLinodeSize_expand
    \/ changeLinodeSize_wait2
    \/ changeLinodeSize_Boot
    \/ Update_waitAfterResize
    \/ Update_ConfigList
    \/ Update_changeLinodeConfig
    \/ Update_privateNetworking
    \/ Update_Reboot
    \/ Update_waitAfterReboot
    \/ resourceLinodeLinodeRead

SpecUpdate == InitUpdate /\ [][NextUpdate]_vars

----------------------------------------------------------------------------
(* resourceLinodeLinodeCreate, one action per remote call *)

Create_getRegionID ==
    /\ pc = "create"
    /\ \E ok \in Outcomes(cache.regionList) :
         LET rl == IF cache.regionList.nil THEN getRegionList(ok) ELSE cache.regionList
             r == IF rl.nil THEN RemoteErr(-1) ELSE getRegionID(rl.v, Get("region"))
         IN  /\ cache' = [cache EXCEPT !.regionList = rl]
             /\ calls' = IF cache.regionList.nil
                         THEN Append(calls, Call("Avail.DataCenters", <<>>, ok)) ELSE calls
             /\ IF r.err # "nil" THEN Return("error") /\ UNCHANGED loc
                ELSE /\ loc' = [loc EXCEPT !.regionId = r.val]
                     /\ pc' = "create_size"
                     /\ UNCHANGED result
    /\ UNCHANGED <<d, remote, w, clock>>

Create_getSizeId ==
    /\ pc = "create_size"
    /\ \E ok \in Outcomes(cache.sizeList) :
         LET sl == IF cache.sizeList.nil THEN getSizeList(ok) ELSE cache.sizeList
             r == IF sl.nil THEN RemoteErr(-1) ELSE getSizeId(sl.v, Get("size"))
         IN  /\ cache' = [cache EXCEPT !.sizeList = sl]
             /\ calls' = IF cache.sizeList.nil
                         THEN Append(calls, Call("Avail.LinodePlans", <<>>, ok)) ELSE calls
             /\ IF r.err # "nil" THEN Return("error") /\ UNCHANGED loc
                ELSE /\ loc' = [loc EXCEPT !.newPlanID = r.val]
                     /\ pc' = "create_linode"
                     /\ UNCHANGED result
    /\ UNCHANGED <<d, remote, w, clock>>

(* the instance the remote allocates: default label, no group, no volumes *)
NewLinode(regionId, planId) ==
    [LinodeId |-> LinodeId0, Label |-> "linode7", LpmDisplayGroup |-> "",
     PlanId |-> planId, TotalHD |-> getPlanDiskSize(remote.plans, planId).val,
     DataCenterId |-> regionId, Status |-> 0]

Create_LinodeCreate ==
    /\ pc = "create_linode"
    /\ \E ok \in BOOLEAN :
         /\ calls' = Append(calls, Call("Linode.Create", <<loc.regionId, loc.newPlanID, 1>>, ok))
         /\ IF ~ok THEN Return("error") /\ UNCHANGED <<d, remote, loc>>
            ELSE /\ remote' = [remote EXCEPT !.linodes = <<NewLinode(loc.regionId, loc.newPlanID)>>,
                                            !.ips = <<[IPAddress |-> PublicIP, IsPublic |-> 1]>>]
                 /\ d' = SetPartial(SetId(d, Itoa(LinodeId0)), {"region", "size"})
                 /\ loc' = [loc EXCEPT !.id = LinodeId0]
                 /\ pc' = "create_swap"
                 /\ UNCHANGED result
    /\ UNCHANGED <<cache, w, clock>>

(* the remote creates a volume when the call gets through and the volume fits *)
DiskFits(size) ==
    /\ size > 0
    /\ SumSizes(remote.disks) + size <= remote.linodes[1].TotalHD

NewDisk(type, label, size) ==
    [DiskId |-> 11 + Len(remote.disks), Type |-> type, Label |-> label, Size |-> size]

Create_swap ==
    /\ pc = "create_swap"
    /\ IF Get("swap_size") > 0
       THEN \E ok \in BOOLEAN :
              /\ calls' = Append(calls, Call("Disk.Create", <<loc.id, "swap", Get("swap_size")>>,
                                             ok /\ DiskFits(Get("swap_size"))))
              /\ IF ok /\ DiskFits(Get("swap_size"))
                 THEN /\ remote' = [remote EXCEPT !.disks =
                                       Append(@, NewDisk("swap", <<"swap">>, Get("swap_size")))]
                      /\ d' = SetPartial(d, {"swap_size"})
                      /\ pc' = "create_list"
                      /\ UNCHANGED result
                 ELSE Return("error") /\ UNCHANGED <<d, remote>>
       ELSE /\ d' = SetPartial(d, {"swap_size"})
            /\ pc' = "create_list"
            /\ UNCHANGED <<remote, calls, result>>
    /\ UNCHANGED <<loc, cache, w, clock>>

Create_LinodeList ==
    /\ pc = "create_list"
    /\ \E ok \in BOOLEAN :
         /\ calls' = Append(calls, Call("Linode.List", <<loc.id>>, ok))
         /\ IF ~ok \/ Len(remote.linodes) # 1
            THEN Return("error") /\ UNCHANGED loc
            ELSE /\ loc' = [loc EXCEPT !.linode = remote.linodes[1]]
                 /\ pc' = "create_settings"
                 /\ UNCHANGED result
    /\ UNCHANGED <<d, remote, cache, w, clock>>

Create_changeLinodeSettings ==
    /\ pc = "create_settings"
    /\ LET updates == SettingsUpdates(loc.linode)
       IN  IF updates = {}
           THEN /\ d' = SetPartial(d, {"group", "name"})
                /\ pc' = "create_private"
                /\ UNCHANGED <<remote, calls, result>>
           ELSE \E ok \in BOOLEAN :
                  /\ calls' = Append(calls, Call("Linode.Update", <<loc.linode.LinodeId, updates>>, ok))
                  /\ IF ok
                     THEN /\ remote' = [remote EXCEPT !.linodes[1] = ApplySettings(@, updates)]
                          /\ d' = SetPartial(d, {"group", "name"})
                          /\ pc' = "create_private"
                          /\ UNCHANGED result
                     ELSE Return("error") /\ UNCHANGED <<d, remote>>
    /\ UNCHANGED <<loc, cache, w, clock>>

Create_AddPrivate ==
    /\ pc = "create_private"
    /\ IF Get("private_networking")
       THEN \E ok \in BOOLEAN :
              /\ calls' = Append(calls, Call("Ip.AddPrivate", <<loc.linode.LinodeId>>, ok))
              /\ IF ok
                 THEN /\ remote' = [remote EXCEPT !.ips =
                                       Append(@, [IPAddress |-> PrivateIP, IsPublic |-> 0])]
                      /\ d' = SetPartial([d EXCEPT !.new.private_ip_address = PrivateIP],
                                         {"private_ip_address", "private_networking"})
                      /\ pc' = "create_deploy"
                      /\ UNCHANGED result
                 ELSE Return("error") /\ UNCHANGED <<d, remote>>
       ELSE /\ d' = SetPartial(d, {"private_networking"})
            /\ pc' = "create_deploy"
            /\ UNCHANGED <<remote, calls, result>>
    /\ UNCHANGED <<loc, cache, w, clock>>

(* diskLabel := fmt.Sprintf("Root(%d)__Base(%d)", linode.LinodeId, imageId) *)
DiskLabel(linodeId, imageId) == <<"Root", linodeId, "Base", imageId>>

(* deployImage up to the volume: findImage, then the create call of the
   catalog the image was found in *)
Create_deployImage ==
    /\ pc = "create_deploy"
    /\ \E okDist \in BOOLEAN, okImg \in BOOLEAN, ok \in BOOLEAN :
         LET f == findImage(DistResp(okDist), CustResp(okImg), Get("image"))
             disk_size == loc.linode.TotalHD - Get("swap_size")
             op == IF f.res.imageType = PREBUILT THEN "Disk.CreateFromDistribution"
                   ELSE "Disk.CreateFromImage"
             logged == calls \o [i \in 1..Len(f.calls) |->
                                    Call(f.calls[i], <<>>,
                                         IF f.calls[i] = "Image.List" THEN okImg ELSE okDist)]
         IN  IF f.res.err # "nil"
             THEN /\ calls' = logged
                  /\ Return("error")
                  /\ UNCHANGED <<d, remote>>
             ELSE /\ calls' = Append(logged, Call(op, <<f.res.imageId, loc.linode.LinodeId,
                                                        disk_size>>, ok /\ DiskFits(disk_size)))
                  /\ IF ok /\ DiskFits(disk_size)
                     THEN /\ remote' = [remote EXCEPT !.disks = Append(@,
                                 NewDisk("ext4", DiskLabel(loc.linode.LinodeId, f.res.imageId),
                                         disk_size))]
                          /\ pc' = "create_deploy_wait"
                          /\ UNCHANGED <<d, result>>
                     ELSE Return("error") /\ UNCHANGED <<d, remote>>
    /\ UNCHANGED <<loc, cache, w, clock>>

Create_deployWait ==
    /\ pc = "create_deploy_wait"
    /\ \E o \in WaitOutcomes :
         /\ calls' = Append(calls, Call("Job.List", <<loc.linode.LinodeId, "fixed", FixedWaitMinutes>>, o = "ok"))
         /\ IF o # "ok" THEN Return("error") /\ UNCHANGED d
            ELSE /\ d' = SetPartial(d, {"root_password", "ssh_key"})
                 /\ pc' = "create_disks"
                 /\ UNCHANGED result
    /\ UNCHANGED <<remote, loc, cache, w, clock>>

(* the loop over the listed volumes: the last swap volume and the last other one *)
ClassifyDisks(disks) ==
    [rootDisk |-> LastWhere(disks, LAMBDA x : ~IsSwap(x.Type), LAMBDA x : x.DiskId, 0),
     swapDisk |-> LastWhere(disks, LAMBDA x : IsSwap(x.Type), LAMBDA x : x.DiskId, 0)]

Create_DiskList ==
    /\ pc = "create_disks"
    /\ \E ok \in BOOLEAN :
         /\ calls' = Append(calls, Call("Disk.List", <<loc.linode.LinodeId>>, ok))
         /\ IF ~ok THEN Return("error") /\ UNCHANGED loc
            ELSE LET c == ClassifyDisks(remote.disks)
                 IN  /\ loc' = [loc EXCEPT !.rootDisk = c.rootDisk, !.swapDisk = c.swapDisk]
                     /\ pc' = "create_kernel"
                     /\ UNCHANGED result
    /\ UNCHANGED <<d, remote, cache, w, clock>>

Create_getKernelID ==
    /\ pc = "create_kernel"
    /\ \E ok \in Outcomes(cache.kernelList) :
         LET kl == IF cache.kernelList.nil THEN getKernelList(ok) ELSE cache.kernelList
             r == IF kl.nil THEN RemoteErr(-1) ELSE getKernelID(kl.v, Get("kernel"))
         IN  /\ cache' = [cache EXCEPT !.kernelList = kl]
             /\ calls' = IF cache.kernelList.nil
                         THEN Append(calls, Call("Avail.Kernels", <<>>, ok)) ELSE calls
             /\ IF r.err # "nil" THEN Return("error") /\ UNCHANGED loc
                ELSE /\ loc' = [loc EXCEPT !.kernelId = r.val]
                     /\ pc' = "create_config"
                     /\ UNCHANGED result
    /\ UNCHANGED <<d, remote, w, clock>>

DiskList_swapFirst(swap_size, rootDisk, swapDisk) ==
    IF swap_size > 0 THEN Itoa(swapDisk) \o <<",">> \o Itoa(rootDisk) ELSE Itoa(rootDisk)

(* confArgs["DiskList"]: Sprintf("%d,%d", rootDisk, swapDisk) with a swap
   volume, Sprintf("%d", rootDisk) without *)
DiskList(swap_size, rootDisk, swapDisk) ==
    IF swap_size > 0 THEN Itoa(rootDisk) \o <<",">> \o Itoa(swapDisk) ELSE Itoa(rootDisk)

RootDeviceNum == 1

Create_ConfigCreate ==
    /\ pc = "create_config"
    /\ \E ok \in BOOLEAN :
         LET confArgs == [helper_network |-> IF Get("manage_private_ip_automatically")
                                             THEN "true" ELSE "false",
                          helper_distro |-> IF Get("helper_distro")
                                            THEN "true" ELSE "false",
                          DiskList |-> DiskList(Get("swap_size"), loc.rootDisk, loc.swapDisk),
                          RootDeviceNum |-> RootDeviceNum]
         IN  /\ calls' = Append(calls, Call("Config.Create",
                                 <<loc.linode.LinodeId, loc.kernelId, Get("image"), confArgs>>, ok))
             /\ IF ~ok THEN Return("error") /\ UNCHANGED <<d, remote, loc>>
                ELSE /\ remote' = [remote EXCEPT !.configs = Append(@,
                            [ConfigId |-> 41 + Len(remote.configs),
                             LinodeId |-> loc.linode.LinodeId, KernelId |-> loc.kernelId,
                             HelperDistro |-> ParseBool(confArgs.helper_distro),
                             HelperNetwork |-> ParseBool(confArgs.helper_network),
                             DiskList |-> confArgs.DiskList])]
                     /\ loc' = [loc EXCEPT !.config = remote'.configs[Len(remote'.configs)]]
                     /\ d' = SetPartial(d, {"image", "manage_private_ip_automatically",
                                            "helper_distro"})
                     /\ pc' = "create_boot"
                     /\ UNCHANGED result
    /\ UNCHANGED <<cache, w, clock>>

(* client.Linode.Boot: what it returns is dropped *)
Create_Boot ==
    /\ pc = "create_boot"
    /\ \E ok \in BOOLEAN :
         /\ calls' = Append(calls, Call("Linode.Boot",
                                        <<loc.linode.LinodeId, loc.config.ConfigId>>, ok))
         /\ remote' = RemoteBoot(ok)
    /\ d' = [d EXCEPT !.partialMode = FALSE]
    /\ pc' = "create_boot_wait"
    /\ UNCHANGED <<result, loc, cache, w, clock>>

Create_waitBoot ==
    /\ pc = "create_boot_wait"
    /\ \E o \in WaitOutcomes :
         /\ calls' = Append(calls, Call("Job.List", <<loc.linode.LinodeId, "fixed", FixedWaitMinutes>>, o = "ok"))
         /\ IF o # "ok" THEN Return("error")
            ELSE pc' = "read" /\ UNCHANGED result
    /\ UNCHANGED <<d, remote, loc, cache, w, clock>>

SwapSizes == {0, 256, 512}

InitCreate ==
    /\ pc = "create"
    /\ calls = <<>> /\ result = "none" /\ w = WIdle /\ clock = 0
    /\ loc = [Locals("create") EXCEPT !.kind = "create"]
    /\ remote = RemoteAccount
    /\ \E region \in {"Dallas", "Newark"}, size \in {1024, 2048, UnknownRAM},
          swap_size \in SwapSizes, pn \in BOOLEAN, image \in ImageNames,
          kernel \in {N_Latest64, N_419}, helper_distro \in BOOLEAN, manage \in BOOLEAN,
          name \in {"a", "linode7"}, loaded \in BOOLEAN :
         LET want == [Attrs(name, size, helper_distro, manage, pn, FALSE, swap_size)
                        EXCEPT !.region = region, !.image = image, !.kernel = kernel]
         IN  /\ d = [id |-> <<>>, old |-> want, new |-> want,
                     partial |-> {}, partialMode |-> TRUE]
             /\ cache = IF loaded
                        THEN [kernelList |-> Loaded(FixedKernels),
                              regionList |-> Loaded(FixedRegions),
                              sizeList |-> Loaded(PlanCatalog)]
                        ELSE CacheEmpty

NextCreate ==
    \/ Create_getRegionID
    \/ Create_getSizeId
    \/ Create_LinodeCreate
    \/ Create_swap
    \/ Create_LinodeList
    \/ Create_changeLinodeSettings
    \/ Create_AddPrivate
    \/ Create_deployImage
    \/ Create_deployWait
    \/ Create_DiskList
    \/ Create_getKernelID
    \/ Create_ConfigCreate
    \/ Create_Boot
    \/ Create_waitBoot
    \/ resourceLinodeLinodeRead

SpecCreate == InitCreate /\ [][NextCreate]_vars

----------------------------------------------------------------------------
(* The wait budget of the size step as a function of the instance's storage *)

(* linode.TotalHD values, in steps of 256 MB *)
StorageMB == {k * 256 : k \in 0..MaxStorageUnits}

changeLinodeSize_waitMinutes ==
    /\ pc = "budget"
    /\ loc' = [loc EXCEPT !.waitMinutes = ResizeWaitMinutes(loc.linode.TotalHD)]
    /\ Return("ok")
    /\ UNCHANGED <<d, remote, calls, cache, w, clock>>

InitBudget ==
    /\ pc = "budget"
    /\ d = DIdle /\ remote = RemoteIdle /\ calls = <<>> /\ result = "none"
    /\ cache = CacheEmpty /\ w = WIdle /\ clock = 0
    /\ \E hd \in StorageMB :
         loc = [Locals("budget") EXCEPT !.linode = [RunningLinode("a", 1) EXCEPT !.TotalHD = hd]]

NextBudget == changeLinodeSize_waitMinutes

SpecBudget == InitBudget /\ [][NextBudget]_vars

----------------------------------------------------------------------------
(* Two handler runs in one provider process, each at its kernel lookup.
   kernelList is a plain package variable: getKernelID tests it, getKernelList
   fetches and then assigns it, with no lock around either.  The runs
   interleave between these statements; a run that reads the variable while
   the other assigns it sees the value before or after the assignment. *)

Runs == 1..MaxConcurrent

RunStart(arg) == [pc |-> "check", arg |-> arg, kernels |-> NilList, r1 |-> Pending]

(* if kernelList == nil *)
getKernelID_nilCheck(r) ==
    /\ loc.runs[r].pc = "check"
    /\ loc' = [loc EXCEPT !.runs[r].pc = IF cache.kernelList.nil THEN "fetch" ELSE "find"]
    /\ UNCHANGED <<pc, d, remote, calls, result, cache, w, clock>>

(* kernels, err := client.Avail.Kernels(); an error is returned to the caller *)
getKernelList_Kernels(r) ==
    /\ loc.runs[r].pc = "fetch"
    /\ \E ok \in BOOLEAN :
         /\ calls' = Append(calls, Call("Avail.Kernels", <<r>>, ok))
         /\ loc' = IF ok
                   THEN [loc EXCEPT !.runs[r].kernels = getKernelList(ok),
                                    !.runs[r].pc = "store"]
                   ELSE [loc EXCEPT !.runs[r].r1 = RemoteErr(-1),
                                    !.runs[r].pc = "done"]
    /\ UNCHANGED <<pc, d, remote, result, cache, w, clock>>

(* kernelList = &kernels.Kernels *)
getKernelList_assign(r) ==
    /\ loc.runs[r].pc = "store"
    /\ cache' = [cache EXCEPT !.kernelList = loc.runs[r].kernels]
    /\ loc' = [loc EXCEPT !.runs[r].pc = "find"]
    /\ UNCHANGED <<pc, d, remote, calls, result, w, clock>>

(* k := *kernelList and the search *)
getKernelID_search(r) ==
    /\ loc.runs[r].pc = "find"
    /\ loc' = [loc EXCEPT !.runs[r].r1 = getKernelID(cache.kernelList.v, loc.runs[r].arg),
                          !.runs[r].pc = "done"]
    /\ UNCHANGED <<pc, d, remote, calls, result, cache, w, clock>>

InitConcurrent ==
    /\ pc = "concurrent"
    /\ d = DIdle /\ w = WIdle /\ clock = 0 /\ result = "none" /\ calls = <<>>
    /\ \E kernels \in {FixedKernels, <<FixedKernels[1]>>}, loaded \in BOOLEAN,
          args \in [Runs -> {N_Latest64, N_419, K_41986}] :
         /\ remote = [RemoteIdle EXCEPT !.kernels = kernels]
         /\ cache = IF loaded THEN [CacheEmpty EXCEPT !.kernelList = Loaded(kernels)]
                    ELSE CacheEmpty
         /\ loc = [kind |-> "concurrent", runs |-> [r \in Runs |-> RunStart(args[r])]]

NextConcurrent ==
    \E r \in Runs :
       \/ getKernelID_nilCheck(r)
       \/ getKernelList_Kernels(r)
       \/ getKernelList_assign(r)
       \/ getKernelID_search(r)

SpecConcurrent == InitConcurrent /\ [][NextConcurrent]_vars

----------------------------------------------------------------------------
(* Claims about the lookups, under SpecLookup *)

DistMatch(name) ==
    \E i \in 1..Len(remote.distributions) : remote.distributions[i].Label = name

(* C7: image resolution prefers the distribution catalog.  A name that equals
   a distribution label never resolves to a private image and is never
   reported as not found, and when it resolves the result is a distribution
   with that label; a private image is the result only when no distribution
   label matches, and it has that label or that decimal id; not-found is the
   result only when neither catalog matches. *)
C7_DistributionFirst ==
    (pc = "resolved" /\ loc.kind = "image") =>
        LET name == loc.arg
            r == loc.r1
            imgs == remote.images
        IN  /\ DistMatch(name) => r.err \in {"nil", "remote"}
            /\ (DistMatch(name) /\ r.err = "nil") =>
                   /\ r.imageType = PREBUILT
                   /\ \E i \in 1..Len(remote.distributions) :
                         /\ remote.distributions[i].Label = name
                         /\ remote.distributions[i].DistributionId = r.imageId
            /\ (r.err = "nil" /\ r.imageType = CUSTOM_IMAGE) =>
                   /\ ~DistMatch(name)
                   /\ \E j \in 1..Len(imgs) :
                         /\ imgs[j].ImageId = r.imageId
                         /\ imgs[j].Label = name \/ Itoa(imgs[j].ImageId) = name
            /\ r.err = "notfound" =>
                   /\ ~DistMatch(name)
                   /\ \A j \in 1..Len(imgs) :
                         imgs[j].Label # name /\ Itoa(imgs[j].ImageId) # name
            /\ r.err = "nil" => r.imageType \in {PREBUILT, CUSTOM_IMAGE}

(* a name that is a distribution label, the label of a private image and the
   decimal id of a private image resolved to the distribution *)
C7_Witness ==
    /\ pc = "resolved" /\ loc.kind = "image"
    /\ loc.arg = I_12
    /\ DistMatch(I_12)
    /\ \E j \in 1..Len(remote.images) : remote.images[j].Label = I_12
    /\ \E j \in 1..Len(remote.images) : remote.images[j].ImageId = 12
    /\ loc.r1.err = "nil" /\ loc.r1.imageType = PREBUILT /\ loc.r1.imageId = 12

(* the name a kernel label reads back as, written out label by label *)
ExpectedKernelName(label) ==
    CASE label = K_Latest4x   -> N_Latest4x
      [] label = K_Latest4xrc -> N_Latest4xrc
      [] label = K_Latest64   -> N_Latest64
      [] label = K_41986      -> K_41986
      [] label = K_Grub       -> K_Grub

(* C8: a requested kernel name that begins with "Latest" resolves to the id
   of an entry whose label starts with it, and it does resolve when there is
   such an entry; any other name resolves exactly to entries whose label
   equals it; an id reads back as its entry's label, with the parenthesized
   qualifier and the blanks around it removed when the label begins with
   "Latest". *)
C8_FloatingKernel ==
    LET k == remote.kernels
        Matches(name) ==
            {i \in 1..Len(k) :
                IF HasPrefix(name, Latest) THEN HasPrefix(k[i].Label, name)
                ELSE k[i].Label = name}
    IN  /\ (pc \in {"resolved", "named"} /\ loc.kind = "kernel" /\ loc.dir = "id"
            /\ loc.r1.err # "remote") =>
               /\ loc.r1.err = "nil" <=> Matches(loc.arg) # {}
               /\ loc.r1.err = "nil" =>
                      \E i \in Matches(loc.arg) : k[i].KernelId = loc.r1.val
        /\ (pc = "named" /\ loc.kind = "kernel" /\ loc.r2.err # "remote") =>
               LET id == IF loc.dir = "id" THEN loc.r1.val ELSE loc.arg
                   E == {i \in 1..Len(k) : k[i].KernelId = id}
               IN  /\ loc.r2.err = "nil" <=> E # {}
                   /\ \A i \in E : loc.r2.val = ExpectedKernelName(k[i].Label)

(* "Latest 4.x" resolved to the entry "Latest 4.x (4.19.86)", whose id read
   back as "Latest 4.x" *)
C8_Witness ==
    /\ pc = "named" /\ loc.kind = "kernel" /\ loc.dir = "id"
    /\ loc.arg = N_Latest4x
    /\ loc.r1.err = "nil"
    /\ \E i \in 1..Len(remote.kernels) :
          /\ remote.kernels[i].KernelId = loc.r1.val
          /\ remote.kernels[i].Label = K_Latest4x
    /\ loc.r2 = [val |-> N_Latest4x, err |-> "nil"]

(* C9: for every kind and every name whose lookup succeeds, looking the id up
   again yields the name (a kernel name after stripping the qualifier),
   whatever the catalog holds. *)
C9_RoundTrip ==
    (pc = "named" /\ loc.dir = "id" /\ loc.r1.err = "nil") =>
        /\ loc.r2.err = "nil"
        /\ loc.r2.val = IF loc.kind = "kernel" /\ HasPrefix(loc.arg, Latest)
                        THEN latestKernelStrip(loc.arg)
                        ELSE loc.arg

----------------------------------------------------------------------------
(* Claims about the job waiter, under SpecWait and SpecWaitFair *)

AllSet(jobs) == \A i \in 1..Len(jobs) : jobs[i].HostFinishDtSet

(* C4: the waiter returns success exactly when the list of its most recent
   poll has every completion timestamp set (an empty list included); a success
   on the first poll comes without a sleep; after a poll that listed a pending
   job the waiter has not returned success. *)
C4_SuccessIffConverged ==
    /\ w.pc = "done" =>
          (w.result = "ok" <=> (~w.lastErr /\ AllSet(w.lastJobs)))
    /\ (w.pc \in {"sleep", "done"} /\ ~w.lastErr /\ AllSet(w.lastJobs)) =>
          (w.pc = "done" /\ w.result = "ok")
    /\ (w.pc = "sleep" /\ ~w.lastErr) => ~AllSet(w.lastJobs)

(* success on the first poll, before any sleep, of a list of finished jobs *)
C4_Witness ==
    /\ w.pc = "done" /\ w.result = "ok" /\ ~w.slept
    /\ Len(w.lastJobs) > 0 /\ AllSet(w.lastJobs)

(* C5: while some job stays pending and no Job.List call fails, the waiter
   ends with a timeout; the timeout comes after the deadline has elapsed, and
   at most one sleep plus one list call after it: 5 minutes for the fixed
   waiter, waitMinutes minutes for the other. *)
C5_Timeout ==
    LET D == IF w.fn = "fixed" THEN 300 ELSE w.waitMinutes * 60
        SomePending == \E i \in 1..Len(remote.jobs) : ~remote.jobs[i].HostFinishDtSet
    IN  /\ [](w.result = "timeout" =>
                /\ clock - w.start > D
                /\ clock - w.start <= D + 1 + w.lastCallSecs)
        /\ ([]SomePending /\ []~w.lastErr) => <>(w.result = "timeout")

(* the fixed waiter timed out at the latest moment the claim allows *)
C5_Witness ==
    /\ w.result = "timeout" /\ w.fn = "fixed"
    /\ w.lastCallSecs > 0
    /\ clock - w.start = 300 + 1 + w.lastCallSecs

(* C6: a failed Job.List call ends the waiter at once with that error: no
   sleep follows, no further poll, and the outcome is neither success nor
   timeout. *)
C6_ListErrorPropagates ==
    /\ w.lastErr => (w.pc = "done" /\ w.result = "error")
    /\ w.result = "error" => w.lastErr
    /\ w.pc = "done" => ~ENABLED (waitForJobsToComplete_JobList \/ waitForJobsToComplete_Sleep)

(* a poll after at least one sleep failed *)
C6_Witness ==
    /\ w.lastErr /\ w.slept /\ w.result = "error"

----------------------------------------------------------------------------
(* Claims about the create run, under SpecCreate *)

(* C3: the boot configuration that create makes lists one device, the root
   volume, when the requested swap size is 0, and two devices, the root volume
   first and the swap volume second, when it is greater than 0.  The root
   volume is the one the image deploy produced, the swap volume the one of
   type swap. *)
C3_DeviceList ==
    pc = "create_boot" =>
        LET c == calls[Len(calls)]
            dl == c.a[4].DiskList
            roots == {remote.disks[i].DiskId : i \in {j \in 1..Len(remote.disks) :
                                                        remote.disks[j].Label[1] = "Root"}}
            swaps == {remote.disks[i].DiskId : i \in {j \in 1..Len(remote.disks) :
                                                        remote.disks[j].Type = "swap"}}
        IN  /\ c.op = "Config.Create"
            /\ c.a[4].RootDeviceNum = 1
            /\ Get("swap_size") = 0 => \E r \in roots : dl = Itoa(r)
            /\ Get("swap_size") > 0 =>
                  \E r \in roots, s \in swaps : dl = Itoa(r) \o <<",">> \o Itoa(s)
            /\ remote.configs[Len(remote.configs)].DiskList = dl

(* a configuration with a swap volume has just been created *)
C3_Witness ==
    /\ pc = "create_boot"
    /\ Get("swap_size") > 0
    /\ Len(remote.disks) = 2
    /\ calls[Len(calls)].op = "Config.Create"
    /\ calls[Len(calls)].a[4].DiskList = Itoa(12) \o <<",">> \o Itoa(11)

----------------------------------------------------------------------------
(* Claims about the update run, under SpecUpdate *)

(* C1: when the volumes of the instance add up to more than the storage of
   the target plan, the size step ends with an error and the run issues no
   instance resize, no volume resize and no boot. *)
C1_NoResizeWhenTooBig ==
    LET target == getPlanDiskSize(remote.plans, loc.newPlanID).val
        passedCheck == pc \notin {"update", "settings", "size", "size_check"}
    IN  ( /\ loc.kind = "update"
          /\ loc.newPlanID # 0
          /\ passedCheck
          /\ "Disk.Resize" \notin Ops(calls)
          /\ SumSizes(remote.disks) > target )
        => /\ pc = "done" /\ result = "error"
           /\ Ops(calls) \cap {"Linode.Resize", "Disk.Resize", "Linode.Boot"} = {}
           /\ "size" \notin d.partial

(* C2: an update that turns private_networking from true to false fails and
   makes no remote call at all. *)
C2_NoCallOnDisable ==
    ( /\ loc.kind = "update"
      /\ d.old.private_networking /\ ~d.new.private_networking )
    => /\ calls = <<>>
       /\ pc = "done" => result = "error"

(* C10: with disk expansion on, the volume that is resized is a largest
   volume of the instance and its new size is the target plan storage less
   the size of the other volumes; with disk expansion off no volume is
   resized.  Stated for instances that have a volume. *)
C10_ExpandLargest ==
    /\ [](loc.kind = "update" /\ ~d.old.disk_expansion => "Disk.Resize" \notin Ops(calls))
    /\ [][ ( /\ loc.kind = "update"
             /\ Len(calls') > Len(calls)
             /\ calls'[Len(calls')].op = "Disk.Resize"
             /\ remote.disks # <<>> )
           => LET c == calls'[Len(calls')]
                  target == getPlanDiskSize(remote.plans, loc.newPlanID).val
                  aggregate == SumSizes(remote.disks)
              IN  \E j \in 1..Len(remote.disks) :
                     /\ remote.disks[j].DiskId = c.a[2]
                     /\ \A k \in 1..Len(remote.disks) :
                           remote.disks[k].Size <= remote.disks[j].Size
                     /\ c.a[3] = target - (aggregate - remote.disks[j].Size) ]_vars

----------------------------------------------------------------------------
(* Claims about failures and the order of calls in the create run, under
   SpecCreate *)

Allocated == \E i \in 1..Len(calls) : calls[i].op = "Linode.Create" /\ calls[i].ok

(* C11: once Linode.Create has succeeded the id it assigned is recorded before
   anything else is called; a later step that fails (swap creation, re-fetch,
   settings update, address allocation, image deploy, volume listing, kernel
   resolution, configuration creation, a wait) ends the run with an error,
   the id stays recorded and no delete is issued. *)
C11_IdKeptOnFailure ==
    /\ Allocated => d.id = Itoa(remote.linodes[1].LinodeId)
    /\ \A i \in 1..Len(calls) :
          (~calls[i].ok /\ calls[i].op # "Linode.Boot")
          => i = Len(calls) /\ pc = "done" /\ result = "error"
    /\ (pc = "done" /\ result = "ok")
       => /\ Len(remote.configs) = 1
          /\ \E i \in 1..Len(remote.disks) : remote.disks[i].Label[1] = "Root"
          /\ d.old.swap_size > 0 => \E i \in 1..Len(remote.disks) : IsSwap(remote.disks[i].Type)
          /\ d.old.private_networking => getIps(remote.ips).private # ""
    /\ "Linode.Delete" \notin Ops(calls)

(* the configuration could not be created: the run has failed and the id of
   the allocated instance is still recorded *)
C11_Witness ==
    /\ Allocated
    /\ pc = "done" /\ result = "error"
    /\ calls[Len(calls)].op = "Config.Create" /\ ~calls[Len(calls)].ok
    /\ d.id = Itoa(LinodeId0)

(* C12: a create run that succeeds, with a swap volume and private networking
   requested, makes its state-changing calls in the order: allocate, create
   the swap volume, deploy the image (and wait), allocate the private
   address, create the configuration, boot, wait; the read-back follows. *)
C12_CreateOrder ==
    (loc.kind = "create" /\ pc = "done" /\ result = "ok"
       /\ d.old.swap_size > 0 /\ d.old.private_networking)
    => LET Deploy == {"Disk.CreateFromDistribution", "Disk.CreateFromImage"}
           Listed == {"Linode.Create", "Disk.Create", "Ip.AddPrivate", "Config.Create",
                      "Linode.Boot", "Job.List"} \cup Deploy
           seq == SelectSeq(calls, LAMBDA c : c.op \in Listed)
           last == CHOOSE i \in 1..Len(calls) :
                      calls[i].op \in Listed /\ \A j \in (i+1)..Len(calls) : calls[j].op \notin Listed
       IN  /\ [i \in 1..Len(seq) |-> IF seq[i].op \in Deploy THEN "deploy" ELSE seq[i].op]
                = <<"Linode.Create", "Disk.Create", "deploy", "Job.List", "Ip.AddPrivate",
                    "Config.Create", "Linode.Boot", "Job.List">>
           /\ \A j \in 1..Len(calls) : calls[j].op = "Ip.List" => j > last

----------------------------------------------------------------------------
(* Claims about failures and the order of calls in the update run, under
   SpecUpdate *)

(* the four attribute groups of the update handler, by the calls that change
   remote state; 0 for the calls that only read *)
GroupOf(op) ==
    IF op = "Linode.Update" THEN 1
    ELSE IF op \in {"Linode.Resize", "Disk.Resize", "Linode.Boot"} THEN 2
    ELSE IF op = "Config.Update" THEN 3
    ELSE IF op \in {"Ip.AddPrivate", "Linode.Reboot"} THEN 4
    ELSE 0

(* C13: the update run makes its state-changing calls group by group, in the
   order identity, size, helper flags, private networking, and a call that
   failed in one group is followed by no call of a later group. *)
C13_UpdateOrder ==
    loc.kind = "update" =>
      \A i \in 1..Len(calls), j \in 1..Len(calls) :
         (i < j /\ GroupOf(calls[i].op) > 0 /\ GroupOf(calls[j].op) > 0)
         => /\ GroupOf(calls[i].op) <= GroupOf(calls[j].op)
            /\ ~calls[i].ok => GroupOf(calls[j].op) = GroupOf(calls[i].op)

----------------------------------------------------------------------------
(* Claims about the stored catalogs, under SpecLookup *)

ListOf(c, kind) ==
    IF kind = "kernel" THEN c.kernelList
    ELSE IF kind = "region" THEN c.regionList ELSE c.sizeList

CatalogOf(kind) ==
    IF kind = "kernel" THEN remote.kernels
    ELSE IF kind = "region" THEN remote.regions ELSE remote.plans

FetchOf(kind) ==
    IF kind = "kernel" THEN "Avail.Kernels"
    ELSE IF kind = "region" THEN "Avail.DataCenters" ELSE "Avail.LinodePlans"

AnswerFrom(list, kind, dir, arg) ==
    IF kind = "kernel" THEN (IF dir = "id" THEN getKernelID(list, arg) ELSE getKernelName(list, arg))
    ELSE IF kind = "region"
    THEN (IF dir = "id" THEN getRegionID(list, arg) ELSE getRegionName(list, arg))
    ELSE (IF dir = "id" THEN getSizeId(list, arg) ELSE getSize(list, arg))

(* C14: once a catalog has been fetched, every later lookup of that kind, in
   either direction and in any later run of the process, answers from the
   stored list without calling the remote; a fetch that fails stores nothing
   and returns the error, and the next lookup fetches again. *)
C14_Memoized ==
    /\ [](\A kind \in {"kernel", "region", "size"} :
            ~ListOf(cache, kind).nil => ListOf(cache, kind).v = CatalogOf(kind))
    /\ [][ (loc.kind \in {"kernel", "region", "size"}
              /\ pc' \in {"resolved", "named"} /\ pc' # pc)
           => LET cur == ListOf(cache, loc.kind)
                  nxt == ListOf(cache', loc.kind)
                  dir == IF pc' = "resolved" THEN "id" ELSE "name"
                  arg == IF pc = "resolved" THEN loc.r1.val ELSE loc.arg
                  answer == IF pc' = "resolved" THEN loc'.r1 ELSE loc'.r2
              IN  /\ ~cur.nil => /\ calls' = calls
                                 /\ cache' = cache
                                 /\ answer = AnswerFrom(cur.v, loc.kind, dir, arg)
                  /\ cur.nil => /\ calls' = Append(calls, FetchOf(loc.kind))
                                /\ nxt.nil => answer.err = "remote"
                                /\ ~nxt.nil => answer = AnswerFrom(nxt.v, loc.kind, dir, arg) ]_vars

(* the first run's fetch failed, the second run fetched again, and its second
   lookup was answered without a call *)
C14_Witness ==
    /\ loc.kind = "kernel" /\ loc.run = 2 /\ pc = "named"
    /\ calls = <<"Avail.Kernels", "Avail.Kernels">>
    /\ loc.r1.err = "nil" /\ loc.r2.err = "nil"
    /\ ~cache.kernelList.nil

----------------------------------------------------------------------------
(* C15: a step of the create run that fails makes the run return an error;
   a boot call that fails is followed by no wait and no read-back. *)
C15_BootFailureReturned ==
    loc.kind = "create" =>
      \A i \in 1..Len(calls) :
         ~calls[i].ok => i = Len(calls) /\ pc = "done" /\ result = "error"

----------------------------------------------------------------------------
(* C16: an update run on an instance that has no boot configuration, or more
   than one, returns an error and makes no configuration patch, no private
   address allocation and no reboot. *)
C16_ConfigCount ==
    (loc.kind = "update" /\ remote.linodes # <<>> /\ Len(remote.configs) # 1)
    => /\ pc = "done" => result = "error"
       /\ Ops(calls) \cap {"Config.Update", "Ip.AddPrivate", "Linode.Reboot"} = {}

(* the configurations were listed, there are two of them, the run has failed *)
C16_Witness ==
    /\ loc.kind = "update" /\ Len(remote.configs) = 2
    /\ pc = "done" /\ result = "error"
    /\ calls[Len(calls)].op = "Config.List" /\ calls[Len(calls)].ok

----------------------------------------------------------------------------
(* the read-back has begun: it lists the instance a second time *)
ReadStarted == Cardinality({i \in 1..Len(calls) : calls[i].op = "Linode.List"}) >= 2

(* C17: an update that turns private_networking from false to true allocates
   the private address exactly once; with automatic network management a
   reboot follows the successful allocation and the run waits for the jobs
   before the read-back, without it there is no reboot; when the allocation
   fails there is no reboot and the run returns an error.  Stated on the run
   up to the read-back, which overwrites the requested values. *)
C17_Activation ==
    (loc.kind = "update" /\ ~ReadStarted
       /\ ~d.old.private_networking /\ d.new.private_networking)
    => LET adds == {i \in 1..Len(calls) : calls[i].op = "Ip.AddPrivate"}
           reboots == {i \in 1..Len(calls) : calls[i].op = "Linode.Reboot"}
           manage == d.new.manage_private_ip_automatically
       IN  /\ Cardinality(adds) <= 1
           /\ Cardinality(reboots) <= 1
           /\ pc = "read" => Cardinality(adds) = 1 /\ \A a \in adds : calls[a].ok
           /\ \A r \in reboots : manage /\ \E a \in adds : a < r /\ calls[a].ok
           /\ (pc = "read" /\ manage)
              => \E r \in reboots :
                    /\ calls[r].ok
                    /\ r + 1 = Len(calls)
                    /\ calls[Len(calls)].op = "Job.List" /\ calls[Len(calls)].ok
           /\ ~manage => reboots = {}
           /\ \A a \in adds :
                 ~calls[a].ok => reboots = {} /\ pc = "done" /\ result = "error"

(* private networking was turned on with automatic management: allocated,
   rebooted, waited, about to read back *)
C17_Witness ==
    /\ loc.kind = "update" /\ pc = "read"
    /\ ~d.old.private_networking /\ d.new.private_networking
    /\ d.new.manage_private_ip_automatically
    /\ "Linode.Reboot" \in Ops(calls) /\ "Ip.AddPrivate" \in Ops(calls)

----------------------------------------------------------------------------
(* C18: when a remote call of the size step fails (the volume listing of the
   safety check, the instance resize, the volume resize, the final boot) the
   step returns an error and no state-changing call follows. *)
C18_SizeStepFailure ==
    loc.kind = "update" =>
      \A i \in 1..Len(calls) :
         (calls[i].op \in {"Disk.List", "Linode.Resize", "Disk.Resize", "Linode.Boot"}
            /\ ~calls[i].ok)
         => /\ \A j \in (i+1)..Len(calls) : GroupOf(calls[j].op) = 0
            /\ pc = "done" /\ result = "error"

----------------------------------------------------------------------------
(* C19: the wait budget of the size step is 3 minutes for each gigabyte of
   the instance's storage, and more than 0 minutes for every instance whose
   storage is more than 0 MB.  Under SpecBudget. *)
C19_WaitBudget ==
    (loc.kind = "budget" /\ pc = "done")
    => /\ loc.linode.TotalHD % 1024 = 0 => loc.waitMinutes = 3 * (loc.linode.TotalHD \div 1024)
       /\ loc.linode.TotalHD > 0 => loc.waitMinutes > 0

----------------------------------------------------------------------------
(* C20: an update run applies only what differs.  When name, group, size,
   both helper flags and private_networking are all unchanged the run makes
   no state-changing call; and when name or group is reported changed but
   both equal what the fetched instance already has, no Linode.Update is
   made.  Stated on the run up to the read-back, which overwrites the
   requested values. *)
C20_OnlyDiffs ==
    (loc.kind = "update" /\ ~ReadStarted)
    => /\ (\A k \in {"name", "group", "size", "helper_distro",
                     "manage_private_ip_automatically", "private_networking"} :
              d.old[k] = d.new[k])
          => \A i \in 1..Len(calls) : GroupOf(calls[i].op) = 0
       /\ (loc.linode # NoLinode
             /\ loc.linode.Label = d.new.name
             /\ loc.linode.LpmDisplayGroup = d.new.group)
          => "Linode.Update" \notin Ops(calls)

(* the name is reported changed, but the fetched instance already carries it
   and the group: the run went on without a Linode.Update *)
C20_Witness ==
    /\ loc.kind = "update" /\ pc = "read"
    /\ d.old.name # d.new.name
    /\ loc.linode.Label = d.new.name /\ loc.linode.LpmDisplayGroup = d.new.group
    /\ "Linode.Update" \notin Ops(calls)
    /\ "Config.List" \in Ops(calls)

(* ------------------------------------------------------------------ *)
(* Claims about the boot-configuration patch of an update run           *)

(* the helper flags whose desired value differs from the stored one, by the
   name they have in the patch *)
ChangedHelpers ==
    {k \in {"helper_distro", "helper_network"} :
        IF k = "helper_distro" THEN d.old.helper_distro # d.new.helper_distro
        ELSE d.old.manage_private_ip_automatically # d.new.manage_private_ip_automatically}

(* C21: every Config.Update of an update run carries exactly the helper flags
   that changed and the kernel id the configuration already had; none is
   issued when neither flag changed; and the kernel of every boot
   configuration stays what it was, whatever the desired kernel name is. *)
C21_ConfigPatch ==
    loc.kind = "update" =>
      /\ \A i \in 1..Len(calls) :
           calls[i].op = "Config.Update" =>
             /\ calls[i].a[3] = ConfigOf(1, TRUE, TRUE).KernelId
             /\ DOMAIN calls[i].a[4] # {}
             /\ ~ReadStarted => DOMAIN calls[i].a[4] = ChangedHelpers
      /\ (~ReadStarted /\ ChangedHelpers = {}) => "Config.Update" \notin Ops(calls)
      /\ \A k \in 1..Len(remote.configs) :
           remote.configs[k].KernelId = ConfigOf(k, TRUE, TRUE).KernelId

(* a patch of the network helper alone has been applied in a run whose desired
   kernel is not the configuration's kernel *)
C21_Witness ==
    /\ loc.kind = "update" /\ ~ReadStarted
    /\ d.new.kernel = N_419
    /\ \E i \in 1..Len(calls) :
         /\ calls[i].op = "Config.Update" /\ calls[i].ok
         /\ DOMAIN calls[i].a[4] = {"helper_network"}
    /\ remote.configs[1].HelperNetwork = FALSE
    /\ remote.configs[1].KernelId = 138

(* ------------------------------------------------------------------ *)
(* Claims about the partial state of an update run                      *)

(* the attributes a state-changing call of the update run changes remotely *)
ChangedBy(c) ==
    IF c.op = "Linode.Update"
    THEN (IF "Label" \in c.a[2] THEN {"name"} ELSE {})
         \cup (IF "lpm_displayGroup" \in c.a[2] THEN {"group"} ELSE {})
    ELSE IF c.op = "Linode.Resize" THEN {"size"}
    ELSE IF c.op = "Config.Update"
    THEN (IF "helper_distro" \in DOMAIN c.a[4] THEN {"helper_distro"} ELSE {})
         \cup (IF "helper_network" \in DOMAIN c.a[4]
               THEN {"manage_private_ip_automatically"} ELSE {})
    ELSE IF c.op = "Ip.AddPrivate" THEN {"private_networking"}
    ELSE {}

(* C22: when an update run returns an error, every attribute changed by a
   state-changing call of the run that succeeded is in the partial state. *)
C22_CommittedOnFailure ==
    (loc.kind = "update" /\ pc = "done" /\ result = "error") =>
      \A i \in 1..Len(calls) :
         calls[i].ok => ChangedBy(calls[i]) \subseteq d.partial

(* ------------------------------------------------------------------ *)
(* Claims about an update run for an instance that is gone             *)

(* C24: an update run whose instance list call succeeds with no instance in
   it ends with an error returned to the caller, and has made no
   state-changing call. *)
C24_VanishedInstance ==
    (/\ loc.kind = "update" /\ pc = "done"
     /\ Len(calls) >= 1 /\ calls[1].op = "Linode.List" /\ calls[1].ok
     /\ remote.linodes = <<>>)
    => /\ result = "error"
       /\ \A i \in 1..Len(calls) : GroupOf(calls[i].op) = 0

(* ------------------------------------------------------------------ *)
(* Claims about the helper flags after the read-back                   *)

(* C25: after a create run whose read-back found the instance with exactly
   one boot configuration, the distro-helper attribute equals the
   configuration's distro-helper flag and the automatic-network-management
   attribute equals its network-helper flag, which are the values the run
   asked for. *)
C25_HelperReadBack ==
    (/\ loc.kind = "create" /\ pc = "done" /\ result = "ok"
     /\ ReadStarted /\ Len(remote.configs) = 1)
    => /\ d.new.helper_distro = remote.configs[1].HelperDistro
       /\ d.new.manage_private_ip_automatically = remote.configs[1].HelperNetwork
       /\ d.new.helper_distro = d.old.helper_distro
       /\ d.new.manage_private_ip_automatically = d.old.manage_private_ip_automatically

(* ------------------------------------------------------------------ *)
(* Claims about concurrent runs, under SpecConcurrent                  *)

(* C23: when two runs look a kernel up concurrently, the kernel list is
   fetched from the remote API successfully at most once. *)
C23_FetchedOnce ==
    loc.kind = "concurrent" =>
      Cardinality({i \in 1..Len(calls) :
                     calls[i].op = "Avail.Kernels" /\ calls[i].ok}) <= 1

====
